---- MODULE Spec2Model ----
(***************************************************************************)
(* claude-cruise: usage ledger (SQLiteAdapter), limit learner and          *)
(* prediction engine (RateLimitTracker, VelocityCalculator,                *)
(* PredictionEngine), smart router (SmartRouter) and the POST /v1/messages *)
(* handler of the proxy, as one state machine.                             *)
(*                                                                         *)
(* Conventions.                                                            *)
(*  - Time is in seconds (TLC's integers are 32-bit, and 30 days of        *)
(*    milliseconds do not fit): a duration the source writes in ms is      *)
(*    divided by 1000 here, 60000 ms = 60, 5 h = 18000, a day = 86400.     *)
(*  - A JavaScript number that need not be an integer is a record:         *)
(*      [k |-> "fin", n |-> numerator, d |-> denominator > 0],             *)
(*      [k |-> "inf"] (Infinity) or [k |-> "nan"] (NaN);                   *)
(*    arithmetic on them is exact (no binary rounding).                    *)
(*  - cost_usd is kept in units of 1e-8 USD (price per million tokens      *)
(*    times 100 is an integer for every entry of MODEL_PRICING);           *)
(*    estimatedSavings in units of 1e-3 USD.                               *)
(*  - undefined / null is the string "undefined" where a string is         *)
(*    expected, and the empty tuple where a time is (a time t is <<t>>).   *)
(***************************************************************************)
EXTENDS Integers, Sequences, FiniteSets, TLC

\* ------------------------------------------------------------------------
\* Model names
\* ------------------------------------------------------------------------
SONNET4 == "claude-sonnet-4-20250514"
SONNET35 == "claude-3-5-sonnet-20241022"
HAIKU == "claude-3-5-haiku-20241022"
OPUS == "claude-opus-4-20250514"
OR_SONNET == "anthropic/claude-3.5-sonnet"
OR_HAIKU == "anthropic/claude-3.5-haiku"
QWEN == "qwen2.5-coder:32b"
DEEPSEEK == "deepseek-coder-v2:latest"

Undefined == "undefined"
NoTime == <<>>
Time(t) == <<t>>

\* ------------------------------------------------------------------------
\* Program constants
\* ------------------------------------------------------------------------
\* predictor: DEFAULT_LIMITS and DEFAULT_WINDOW_HOURS
DEFAULT_LIMIT_SONNET == 5000000
DEFAULT_LIMIT_HAIKU == 10000000
DEFAULT_LIMIT_OPUS == 2000000
DEFAULT_WINDOW_HOURS == 5
\* predictor: calculateTrend(logs, 12)
TREND_POINTS == 12
\* router: thresholds
SWITCH_TO_HAIKU == 70
SWITCH_TO_OPENROUTER == 85
SWITCH_TO_LOCAL == 95
\* router: Math.max(resetMs, 60000)
MIN_RESET == 60
\* storage: cleanup(retentionDays = 30)
DEFAULT_RETENTION_DAYS == 30

Hour == 60 * 60
Day == 24 * Hour
\* router: 5 * 60 * 60 * 1000 ms
DEFAULT_RESET == 5 * Hour

\* ------------------------------------------------------------------------
\* Bounds of the model
\* ------------------------------------------------------------------------
\* clock advances per behaviour
MaxTicks == 1
\* usage_logs rows per session
MaxLogs == 2
\* sessions rows per database
MaxSessions == 2
\* rate_limit_events rows per behaviour
MaxEvents == 2
\* router recordRateLimit calls per behaviour (each arms one timer)
MaxTimers == 2
\* rate limit events recorded per behaviour of the limit learner taken alone
MaxLearnerEvents == 5
\* chunks of one upstream response stream
MaxChunks == 2
\* messages of one request body
MaxMessages == 2

\* ------------------------------------------------------------------------
\* Numbers
\* ------------------------------------------------------------------------
Fin(n, d) == [k |-> "fin", n |-> n, d |-> d]
Infinity == [k |-> "inf"]
NaN == [k |-> "nan"]

\* x > c, x >= c, x < c for a number x and an integer c (false on NaN)
NumGT(x, c) == \/ x.k = "inf"
               \/ x.k = "fin" /\ x.n > c * x.d
NumGE(x, c) == \/ x.k = "inf"
               \/ x.k = "fin" /\ x.n >= c * x.d
NumLT(x, c) == x.k = "fin" /\ x.n < c * x.d

\* Math.floor
NumFloor(x) == IF x.k = "fin" THEN Fin(x.n \div x.d, 1) ELSE x

\* Math.min(c, x) for an integer c
NumMin(c, x) ==
    IF x.k = "nan" THEN NaN
    ELSE IF x.k = "inf" THEN Fin(c, 1)
    ELSE IF x.n > c * x.d THEN Fin(c, 1)
    ELSE x

RECURSIVE Gcd(_, _)
Gcd(a, b) == IF b = 0 THEN a ELSE Gcd(b, a % b)

\* a / b on non-negative integers, as JavaScript divides (in lowest terms)
NumDiv(a, b) ==
    IF b = 0 THEN (IF a = 0 THEN NaN ELSE Infinity)
    ELSE LET g == Gcd(a, b) IN Fin(a \div g, b \div g)

\* x * c for an integer c > 0 (in lowest terms)
NumTimes(x, c) ==
    IF x.k = "fin"
    THEN LET g == Gcd(c, x.d) IN Fin(x.n * (c \div g), x.d \div g)
    ELSE x

MaxInt(a, b) == IF a >= b THEN a ELSE b
MinInt(a, b) == IF a <= b THEN a ELSE b

RECURSIVE SumSeq(_)
SumSeq(s) == IF s = <<>> THEN 0 ELSE Head(s) + SumSeq(Tail(s))

SetMax(S) == CHOOSE x \in S : \A y \in S : y <= x
SetMin(S) == CHOOSE x \in S : \A y \in S : x <= y

Range(s) == {s[i] : i \in DOMAIN s}

\* logs.reduce((sum, log) => sum + log.inputTokens + log.outputTokens, 0)
RECURSIVE TotalTokens(_)
TotalTokens(logs) ==
    IF logs = <<>> THEN 0
    ELSE Head(logs).inputTokens + Head(logs).outputTokens + TotalTokens(Tail(logs))

RECURSIVE TotalCost(_)
TotalCost(logs) ==
    IF logs = <<>> THEN 0 ELSE Head(logs).costUsd + TotalCost(Tail(logs))

\* ------------------------------------------------------------------------
\* State
\* ------------------------------------------------------------------------
VARIABLES
    now,                \* Date.now()
    ticks,              \* clock advances so far
    usage_logs,         \* table usage_logs, in insertion order
    rate_limit_events,  \* table rate_limit_events, in insertion order
    routing_decisions,  \* table routing_decisions, in insertion order
    sessions,           \* table sessions: session_id -> row
    sessionId,          \* SQLiteAdapter.sessionId
    dbOpen,             \* the adapter's database handle is open
    storageInstance,    \* storage singleton: `instance` holds the adapter
    instance,           \* predictor singleton: PredictionEngine constructed
    learnedLimits,      \* RateLimitTracker.learnedLimits: model -> LearnedLimit
    config,             \* SmartRouter.config
    currentModel,       \* SmartRouter.currentModel
    isRateLimited,      \* SmartRouter.isRateLimited
    rateLimitResetTime, \* SmartRouter.rateLimitResetTime
    timers,             \* the setTimeout calls of recordRateLimit: [due, pending]
    req,                \* the POST /v1/messages request being handled
    awaiting,           \* the other requests in flight, each at an await
    engineStorage,      \* PredictionEngine.storage of the predictor singleton
    routerStorage,      \* SmartRouter.storage of routerInstance
    last                \* the most recent operation: its name, inputs and result

clockVars == <<now, ticks>>
ledgerVars == <<usage_logs, rate_limit_events, routing_decisions, sessions, sessionId, dbOpen,
                storageInstance>>
learnerVars == <<instance, learnedLimits>>
routerVars == <<config, currentModel, isRateLimited, rateLimitResetTime, timers>>
accessorVars == <<engineStorage, routerStorage>>
vars == <<now, ticks, usage_logs, rate_limit_events, routing_decisions, sessions,
          sessionId, dbOpen, storageInstance, instance, learnedLimits, config, currentModel,
          isRateLimited, rateLimitResetTime, timers, req, awaiting, engineStorage,
          routerStorage, last>>

\* ------------------------------------------------------------------------
\* Usage ledger (SQLiteAdapter)
\* ------------------------------------------------------------------------
\* SELECT ... ORDER BY timestamp DESC; rows of one timestamp newest-inserted first
RECURSIVE InsertDesc(_, _)
InsertDesc(r, s) ==
    IF s = <<>> THEN <<r>>
    ELSE IF r.timestamp >= Head(s).timestamp THEN <<r>> \o s
    ELSE <<Head(s)>> \o InsertDesc(r, Tail(s))

RECURSIVE OrderByTimestampDesc(_)
OrderByTimestampDesc(s) ==
    IF s = <<>> THEN <<>>
    ELSE InsertDesc(s[Len(s)], OrderByTimestampDesc(SubSeq(s, 1, Len(s) - 1)))

RowsOfSession(logs, sid) == SelectSeq(logs, LAMBDA r : r.sessionId = sid)

\* sessions row inserted by createSession
NewSessionRow(startedAt) ==
    [startedAt |-> startedAt, endedAt |-> NoTime, totalCost |-> 0, totalTokens |-> 0]

\* updateSessionTotals with the sub-selects' WHERE session_id = ? left out
updateSessionTotalsAllRows(sess, logs, sid) ==
    IF sid \in DOMAIN sess
    THEN [sess EXCEPT ![sid].totalCost = TotalCost(logs),
                      ![sid].totalTokens = TotalTokens(logs)]
    ELSE sess

\* UPDATE sessions SET total_cost = (SELECT SUM ...), total_tokens = (SELECT SUM ...)
\* WHERE session_id = sid; addLog runs it right after its INSERT, so the sums are
\* over at least one row (never NULL)
updateSessionTotals(sess, logs, sid) ==
    IF sid \in DOMAIN sess
    THEN [sess EXCEPT ![sid].totalCost = TotalCost(RowsOfSession(logs, sid)),
                      ![sid].totalTokens = TotalTokens(RowsOfSession(logs, sid))]
    ELSE sess

\* the row addLog inserts for `log`
fullLog(log, sid) ==
    [timestamp |-> log.timestamp,
     sessionId |-> sid,
     model |-> log.model,
     provider |-> log.provider,
     inputTokens |-> log.inputTokens,
     outputTokens |-> log.outputTokens,
     cacheReadTokens |-> log.cacheReadTokens,
     cacheWriteTokens |-> log.cacheWriteTokens,
     costUsd |-> log.costUsd,
     latencyMs |-> log.latencyMs,
     success |-> log.success,
     errorType |-> log.errorType,
     routedFrom |-> log.routedFrom,
     routingReason |-> log.routingReason]

\* usage_logs and sessions after addLog(log)
addLogRows(logs, log, sid) == Append(logs, fullLog(log, sid))
addLogSessions(sess, logs, log, sid) ==
    updateSessionTotals(sess, addLogRows(logs, log, sid), sid)

getWindowLogs(logs, t, hours) ==
    OrderByTimestampDesc(SelectSeq(logs, LAMBDA r : r.timestamp >= t - hours * Hour))

getRateLimitWindow(events, t, hours) ==
    OrderByTimestampDesc(SelectSeq(events, LAMBDA e : e.timestamp >= t - hours * Hour))

cleanupCutoff(t, retentionDays) == t - retentionDays * Day

\* the DELETE with timestamp <= ? in place of timestamp < ?
cleanupRowsInclusive(logs, t, retentionDays) ==
    SelectSeq(logs, LAMBDA r : ~(r.timestamp <= cleanupCutoff(t, retentionDays)))

\* the rows DELETE FROM usage_logs WHERE timestamp < cutoff leaves
cleanupRows(logs, t, retentionDays) ==
    SelectSeq(logs, LAMBDA r : ~(r.timestamp < cleanupCutoff(t, retentionDays)))

\* UPDATE sessions SET ended_at = now WHERE session_id = sid
endSession(sess, sid, t) ==
    IF sid \in DOMAIN sess THEN [sess EXCEPT ![sid].endedAt = Time(t)] ELSE sess

\* ------------------------------------------------------------------------
\* Clock
\* ------------------------------------------------------------------------
\* the times at which the pending timers are due
PendingDue(ts) == {ts[i].due : i \in {j \in DOMAIN ts : ts[j].pending}}

\* Time passes by d, but not beyond the deadline of a pending timer: the timer
\* callback runs when its deadline is reached.
Tick(d) ==
    /\ ticks < MaxTicks
    /\ \A due \in PendingDue(timers) : due > now
    /\ now' = IF PendingDue(timers) = {} THEN now + d
              ELSE MinInt(now + d, SetMin(PendingDue(timers)))
    /\ ticks' = ticks + 1
    /\ last' = [op |-> "tick"]
    /\ UNCHANGED <<ledgerVars, learnerVars, routerVars, req, awaiting, accessorVars>>

\* ------------------------------------------------------------------------
\* Ledger operations
\* ------------------------------------------------------------------------
\* a usage log entry as the proxy builds it, before addLog stamps the session
LogEntry(t, model, provider, inTok, outTok, cost) ==
    [timestamp |-> t, model |-> model, provider |-> provider,
     inputTokens |-> inTok, outputTokens |-> outTok,
     cacheReadTokens |-> 0, cacheWriteTokens |-> 0,
     costUsd |-> cost, latencyMs |-> 0, success |-> TRUE,
     errorType |-> Undefined, routedFrom |-> Undefined, routingReason |-> Undefined]

AddLog(log) ==
    /\ dbOpen
    /\ Len(RowsOfSession(usage_logs, sessionId)) < MaxLogs
    /\ usage_logs' = addLogRows(usage_logs, log, sessionId)
    /\ sessions' = addLogSessions(sessions, usage_logs, log, sessionId)
    /\ last' = [op |-> "addLog", ret |-> fullLog(log, sessionId)]
    /\ UNCHANGED <<clockVars, rate_limit_events, routing_decisions, sessionId, dbOpen,
                   storageInstance, learnerVars, routerVars, req, awaiting, accessorVars>>

Cleanup(retentionDays) ==
    /\ dbOpen
    /\ usage_logs' = cleanupRows(usage_logs, now, retentionDays)
    /\ last' = [op |-> "cleanup", retentionDays |-> retentionDays,
                before |-> usage_logs,
                eventsBefore |-> rate_limit_events,
                decisionsBefore |-> routing_decisions,
                sessionsBefore |-> sessions,
                ret |-> Len(usage_logs) - Len(cleanupRows(usage_logs, now, retentionDays))]
    /\ UNCHANGED <<clockVars, rate_limit_events, routing_decisions, sessions, sessionId,
                   dbOpen, storageInstance, learnerVars, routerVars, req, awaiting, accessorVars>>

\* what close() does: endSession(), then db.close(). On a handle that is closed
\* already the statement of endSession cannot be prepared: close() throws and
\* nothing is written
adapterClose ==
    /\ sessions' = IF dbOpen THEN endSession(sessions, sessionId, now) ELSE sessions
    /\ dbOpen' = FALSE

\* adapter.close()
Close ==
    /\ adapterClose
    /\ last' = [op |-> "close", wasOpen |-> dbOpen, threw |-> ~dbOpen,
                sessionsBefore |-> sessions]
    /\ UNCHANGED <<clockVars, usage_logs, rate_limit_events, routing_decisions, sessionId,
                   storageInstance, learnerVars, routerVars, req, awaiting, accessorVars>>

\* closeStorageAdapter(): instance.close() and instance = null, if there is an
\* instance; the assignment is not reached when close() throws
CloseStorageAdapter ==
    /\ IF storageInstance
       THEN /\ adapterClose
            /\ storageInstance' = ~dbOpen
       ELSE UNCHANGED <<sessions, dbOpen, storageInstance>>
    /\ last' = [op |-> "closeStorageAdapter", wasOpen |-> dbOpen,
                threw |-> storageInstance /\ ~dbOpen, sessionsBefore |-> sessions]
    /\ UNCHANGED <<clockVars, usage_logs, rate_limit_events, routing_decisions, sessionId,
                   learnerVars, routerVars, req, awaiting, accessorVars>>

\* getStorageAdapter() without an instance: new SQLiteAdapter() on the same
\* database file, with a new session named after the clock (the INSERT fails on a
\* session_id already stored)
Open ==
    /\ ~storageInstance
    /\ now \notin DOMAIN sessions
    /\ Cardinality(DOMAIN sessions) < MaxSessions
    /\ sessions' = [s \in DOMAIN sessions \cup {now} |->
                      IF s = now THEN NewSessionRow(now) ELSE sessions[s]]
    /\ sessionId' = now
    /\ dbOpen' = TRUE
    /\ storageInstance' = TRUE
    /\ engineStorage' = IF instance THEN "old" ELSE engineStorage
    /\ routerStorage' = IF routerStorage = "current" THEN "old" ELSE routerStorage
    /\ last' = [op |-> "open"]
    /\ UNCHANGED <<clockVars, usage_logs, rate_limit_events, routing_decisions,
                   learnerVars, routerVars, req, awaiting>>

\* ------------------------------------------------------------------------
\* Limit learner (RateLimitTracker)
\* ------------------------------------------------------------------------
RECURSIVE SumTokensUsed(_)
SumTokensUsed(events) ==
    IF events = <<>> THEN 0
    ELSE Head(events).tokensUsedBeforeLimit + SumTokensUsed(Tail(events))

EventsOfModel(events, m) == SelectSeq(events, LAMBDA e : e.model = m)

\* Math.floor(avgTokens * 0.95), avgTokens = sum / length
LoadedTokenLimit(modelEvents) ==
    (SumTokensUsed(modelEvents) * 19) \div (Len(modelEvents) * 20)

\* the map loadLearnedLimits builds from the events of the last 30 days
loadLearnedLimits(events, t) ==
    LET recent == getRateLimitWindow(events, t, 30 * 24)
        models == {recent[i].model : i \in DOMAIN recent}
    IN [m \in models |->
          LET modelEvents == EventsOfModel(recent, m)
          IN [tokenLimit |-> LoadedTokenLimit(modelEvents),
              windowHours |-> modelEvents[1].windowHours,
              confidence |-> MinInt(100, Len(modelEvents) * 20),
              lastUpdated |-> SetMax({modelEvents[i].timestamp : i \in DOMAIN modelEvents}),
              dataPoints |-> Len(modelEvents)]]

\* Math.floor((existing.tokenLimit * existing.dataPoints + tokens * 0.95) / newDataPoints)
RunningAverage(existing, tokens) ==
    (existing.tokenLimit * existing.dataPoints * 20 + tokens * 19)
        \div (20 * (existing.dataPoints + 1))

\* Math.floor(tokens * 0.95)
FirstTokenLimit(tokens) == (tokens * 19) \div 20

\* the entry of recordRateLimit with the confidence left unbounded
learnedEntryUnbounded(limits, event, t) ==
    IF event.model \in DOMAIN limits
    THEN [tokenLimit |-> RunningAverage(limits[event.model], event.tokensUsedBeforeLimit),
          windowHours |-> event.windowHours,
          confidence |-> (limits[event.model].dataPoints + 1) * 20,
          lastUpdated |-> t,
          dataPoints |-> limits[event.model].dataPoints + 1]
    ELSE [tokenLimit |-> FirstTokenLimit(event.tokensUsedBeforeLimit),
          windowHours |-> event.windowHours,
          confidence |-> 20,
          lastUpdated |-> t,
          dataPoints |-> 1]

\* the entry recordRateLimit stores for event.model
learnedEntry(limits, event, t) ==
    IF event.model \in DOMAIN limits
    THEN [tokenLimit |-> RunningAverage(limits[event.model], event.tokensUsedBeforeLimit),
          windowHours |-> event.windowHours,
          confidence |-> MinInt(100, (limits[event.model].dataPoints + 1) * 20),
          lastUpdated |-> t,
          dataPoints |-> limits[event.model].dataPoints + 1]
    ELSE [tokenLimit |-> FirstTokenLimit(event.tokensUsedBeforeLimit),
          windowHours |-> event.windowHours,
          confidence |-> 20,
          lastUpdated |-> t,
          dataPoints |-> 1]

\* learnedLimits after RateLimitTracker.recordRateLimit(event)
trackerRecordRateLimit(limits, event, t) ==
    [m \in DOMAIN limits \cup {event.model} |->
        IF m = event.model THEN learnedEntry(limits, event, t) ELSE limits[m]]

\* new Map()
NoLimits == [m \in {} |-> 0]

\* DEFAULT_LIMITS[model] || DEFAULT_LIMITS['claude-sonnet-4-20250514']
DefaultLimit(model) ==
    IF model \in {SONNET4, SONNET35} THEN DEFAULT_LIMIT_SONNET
    ELSE IF model = HAIKU THEN DEFAULT_LIMIT_HAIKU
    ELSE IF model = OPUS THEN DEFAULT_LIMIT_OPUS
    ELSE DEFAULT_LIMIT_SONNET

getLearnedLimit(limits, model, t) ==
    IF model \in DOMAIN limits THEN limits[model]
    ELSE [tokenLimit |-> DefaultLimit(model),
          windowHours |-> DEFAULT_WINDOW_HOURS,
          confidence |-> 0,
          lastUpdated |-> t,
          dataPoints |-> 0]

\* ------------------------------------------------------------------------
\* Velocity and pattern (VelocityCalculator)
\* ------------------------------------------------------------------------
\* A trend is [vals |-> <<v1..v12>>, den |-> d]: bucket i holds vals[i] / d.
Timestamps(logs) == {logs[i].timestamp : i \in DOMAIN logs}

\* the bucket index without Math.min
bucketIndexUnclamped(ts, oldest, range, points) ==
    ((ts - oldest) * points) \div range

\* Math.min(Math.floor((ts - oldest) / (range / points)), points - 1), from 0
bucketIndex(ts, oldest, range, points) ==
    MinInt(((ts - oldest) * points) \div range, points - 1)

calculateTrend(logs, points) ==
    IF logs = <<>> THEN [vals |-> [i \in 1..points |-> 0], den |-> 1]
    ELSE LET newest == SetMax(Timestamps(logs))
             oldest == SetMin(Timestamps(logs))
             range == newest - oldest
         IN IF range = 0
            THEN [vals |-> [i \in 1..points |-> TotalTokens(logs)], den |-> Len(logs)]
            ELSE [vals |-> [i \in 1..points |->
                             TotalTokens(SelectSeq(logs, LAMBDA l :
                                 bucketIndex(l.timestamp, oldest, range, points) = i - 1))],
                  den |-> 1]

\* (recent[2] - recent[1]) - (recent[1] - recent[0]) over the last three points
calculateAcceleration(trend) ==
    LET n == Len(trend.vals)
    IN IF n < 3 THEN Fin(0, 1)
       ELSE Fin((trend.vals[n] - trend.vals[n - 1]) - (trend.vals[n - 1] - trend.vals[n - 2]),
                trend.den)

\* The comparisons of detectPattern are homogeneous in the trend values, so the
\* values are divided by their gcd first (it keeps the squares small):
\* with n values v_i of sum S,
\*   stdDev > avg * 0.5        <=>  4 * sum (n * v_i - S)^2 > n * S^2
\*   acceleration < -avg * 0.2 <=>  5 * n * acceleration < -S
RECURSIVE GcdSeq(_)
GcdSeq(s) == IF s = <<>> THEN 0 ELSE Gcd(Head(s), GcdSeq(Tail(s)))

RECURSIVE SumSqDev(_, _, _)
SumSqDev(vals, n, total) ==
    IF vals = <<>> THEN 0
    ELSE (n * Head(vals) - total) * (n * Head(vals) - total) + SumSqDev(Tail(vals), n, total)

detectPattern(trend, acceleration) ==
    LET n == Len(trend.vals)
        g == GcdSeq(trend.vals)
        vals == IF g = 0 THEN trend.vals ELSE [i \in 1..n |-> trend.vals[i] \div g]
        total == SumSeq(vals)
        acc == IF g = 0 THEN 0 ELSE acceleration.n \div g
    IN IF n < 2 THEN "steady"
       ELSE IF 4 * SumSqDev(vals, n, total) > n * total * total THEN "burst"
       ELSE IF 5 * n * acc < -total THEN "declining"
       ELSE "steady"

calculate(logs, windowMinutes) ==
    IF logs = <<>>
    THEN [tokensPerHour |-> Fin(0, 1),
          tokensPerMinute |-> Fin(0, 1),
          trend |-> [vals |-> [i \in 1..TREND_POINTS |-> 0], den |-> 1],
          acceleration |-> Fin(0, 1),
          pattern |-> "steady"]
    ELSE LET trend == calculateTrend(logs, TREND_POINTS)
             acceleration == calculateAcceleration(trend)
         IN [tokensPerHour |-> NumTimes(NumDiv(TotalTokens(logs), windowMinutes), 60),
             tokensPerMinute |-> NumDiv(TotalTokens(logs), windowMinutes),
             trend |-> trend,
             acceleration |-> acceleration,
             pattern |-> detectPattern(trend, acceleration)]

\* ------------------------------------------------------------------------
\* Prediction engine (PredictionEngine)
\* ------------------------------------------------------------------------
\* getRecommendedAction without the burst clause of its second test
getRecommendedActionNoBurst(usagePercent, minutesUntilLimit, pattern) ==
    IF NumLT(minutesUntilLimit, 10) \/ NumGT(usagePercent, 95) THEN "pause"
    ELSE IF NumGT(usagePercent, 85) THEN "switch_provider"
    ELSE IF NumGT(usagePercent, 70) THEN "switch_model"
    ELSE "continue"

getRecommendedAction(usagePercent, minutesUntilLimit, pattern) ==
    IF NumLT(minutesUntilLimit, 10) \/ NumGT(usagePercent, 95) THEN "pause"
    ELSE IF NumGT(usagePercent, 85) \/ (pattern = "burst" /\ NumGT(usagePercent, 70))
         THEN "switch_provider"
    ELSE IF NumGT(usagePercent, 70) THEN "switch_model"
    ELSE "continue"

\* Math.min(100, (currentUsage / tokenLimit) * 100)
usagePercentOf(currentUsage, tokenLimit) ==
    NumMin(100, NumTimes(NumDiv(currentUsage, tokenLimit), 100))

\* tokensRemaining divided by the tokens per hour
minutesUntilLimitPerHour(tokensRemaining, velocity, windowMinutes, totalTokens) ==
    IF NumGT(velocity.tokensPerHour, 0)
    THEN NumTimes(NumDiv(tokensRemaining, totalTokens), windowMinutes \div 60)
    ELSE Infinity

\* tokensRemaining / velocity.tokensPerMinute when the velocity is positive
minutesUntilLimitOf(tokensRemaining, velocity, windowMinutes, totalTokens) ==
    IF NumGT(velocity.tokensPerMinute, 0)
    THEN NumTimes(NumDiv(tokensRemaining, totalTokens), windowMinutes)
    ELSE Infinity

\* predict(windowHours, model) on the ledger rows `logs` with the learned map `limits`
predict(logs, limits, t, windowHours, model) ==
    LET window == getWindowLogs(logs, t, windowHours)
        learnedLimit == getLearnedLimit(limits, model, t)
        currentUsage == TotalTokens(window)
        velocity == calculate(window, windowHours * 60)
        usagePercent == usagePercentOf(currentUsage, learnedLimit.tokenLimit)
        tokensRemaining == MaxInt(0, learnedLimit.tokenLimit - currentUsage)
        minutesUntilLimit ==
            minutesUntilLimitOf(tokensRemaining, velocity, windowHours * 60, currentUsage)
        dataQuality == MinInt(100, Len(window) * 2)
    IN [usagePercent |-> usagePercent,
        minutesUntilLimit |-> NumFloor(minutesUntilLimit),
        tokensRemaining |-> tokensRemaining,
        confidence |-> (learnedLimit.confidence + dataQuality) \div 2,
        velocity |-> velocity,
        recommendedAction |->
            getRecommendedAction(usagePercent, minutesUntilLimit, velocity.pattern)]

\* getPredictionEngine(storage): the singleton, constructed (loadLearnedLimits) on
\* first use
engineLimits == IF instance THEN learnedLimits
                ELSE loadLearnedLimits(rate_limit_events, now)

\* ------------------------------------------------------------------------
\* Smart router (SmartRouter)
\* ------------------------------------------------------------------------
ANTHROPIC == "anthropic"
OPENROUTER == "openrouter"
OLLAMA == "ollama"

\* MODEL_COSTS: input + output price per million tokens, times 10
RouterCost(model, fallback) ==
    IF model \in {SONNET4, SONNET35} THEN 180
    ELSE IF model = HAIKU THEN 48
    ELSE IF model = OPUS THEN 900
    ELSE IF model = OR_SONNET THEN 195
    ELSE IF model = OR_HAIKU THEN 60
    ELSE IF model \in {QWEN, DEEPSEEK} THEN 0
    ELSE fallback

\* Array.prototype.find on the elements that pass the test: the first of them,
\* or none
First(s) == IF s = <<>> THEN <<>> ELSE <<s[1]>>

\* [...].sort((a, b) => a.priority - b.priority): stable
RECURSIVE InsertByPriority(_, _)
InsertByPriority(p, s) ==
    IF s = <<>> THEN <<p>>
    ELSE IF p.priority <= Head(s).priority THEN <<p>> \o s
    ELSE <<Head(s)>> \o InsertByPriority(p, Tail(s))

\* the sort left out: the providers in the order of the configuration
KeepOrder(s) == s

RECURSIVE SortByPriority(_)
SortByPriority(s) ==
    IF s = <<>> THEN <<>>
    ELSE InsertByPriority(Head(s), SortByPriority(Tail(s)))

\* createDecision with shouldRoute set on every decision it builds
createDecisionAlwaysRoutes(originalModel, provider, targetModel, usagePercent, reason) ==
    [shouldRoute |-> TRUE,
     originalModel |-> originalModel,
     targetProvider |-> provider.name,
     targetModel |-> targetModel,
     targetEndpoint |-> provider.endpoint,
     targetApiKey |-> provider.apiKey,
     reason |-> reason,
     estimatedSavings |->
         MaxInt(0, RouterCost(originalModel, 180) - RouterCost(targetModel, 0)),
     usagePercent |-> usagePercent]

createDecision(originalModel, provider, targetModel, usagePercent, reason) ==
    [shouldRoute |-> targetModel # originalModel \/ provider.name # ANTHROPIC,
     originalModel |-> originalModel,
     targetProvider |-> provider.name,
     targetModel |-> targetModel,
     targetEndpoint |-> provider.endpoint,
     targetApiKey |-> provider.apiKey,
     reason |-> reason,
     estimatedSavings |->
         MaxInt(0, RouterCost(originalModel, 180) - RouterCost(targetModel, 0)),
     usagePercent |-> usagePercent]

noRouting(cfg, model, usagePercent) ==
    LET anthropicProvider == First(SelectSeq(cfg.providers, LAMBDA p : p.name = ANTHROPIC))
    IN [shouldRoute |-> FALSE,
        originalModel |-> model,
        targetProvider |-> ANTHROPIC,
        targetModel |-> model,
        targetEndpoint |-> IF anthropicProvider = <<>> THEN "https://api.anthropic.com"
                           ELSE anthropicProvider[1].endpoint,
        targetApiKey |-> IF anthropicProvider = <<>> THEN Undefined
                         ELSE anthropicProvider[1].apiKey,
        reason |-> "Using requested model",
        estimatedSavings |-> 0,
        usagePercent |-> usagePercent]

\* the filter without the test on the name: the primary stays in the list
sortedProvidersKeepPrimary(cfg, rateLimited) ==
    SortByPriority(SelectSeq(cfg.providers, LAMBDA p : p.enabled))

\* the providers routeToFallback tries, in order
sortedProviders(cfg, rateLimited) ==
    SortByPriority(SelectSeq(cfg.providers,
        LAMBDA p : p.enabled /\ (IF rateLimited THEN p.name # ANTHROPIC ELSE TRUE)))

routeToFallback(cfg, rateLimited, requestedModel, usagePercent, reason) ==
    LET provider == First(SelectSeq(sortedProviders(cfg, rateLimited),
                                    LAMBDA p : Len(p.models) > 0))
    IN IF provider # <<>>
       THEN createDecision(requestedModel, provider[1],
                           IF provider[1].name = ANTHROPIC THEN HAIKU
                           ELSE provider[1].models[1],
                           usagePercent, reason)
       ELSE noRouting(cfg, requestedModel, usagePercent)

\* isRateLimited after checkRateLimitReset()
checkRateLimitReset(rateLimited, resetTime, t) ==
    IF resetTime # NoTime /\ t > resetTime[1] THEN FALSE ELSE rateLimited

resetTimeAfterCheck(resetTime, t) ==
    IF resetTime # NoTime /\ t > resetTime[1] THEN NoTime ELSE resetTime

\* usagePercent > threshold in place of >=
exceedsThreshold(usagePercent, threshold) == NumGT(usagePercent, threshold)

\* usagePercent >= threshold, the test of each step of the cascade
reachesThreshold(usagePercent, threshold) == NumGE(usagePercent, threshold)

\* the threshold cascade of route(), reached when not rate limited
routeByThresholds(cfg, requestedModel, usagePercent) ==
    LET ollamaProvider ==
            First(SelectSeq(cfg.providers, LAMBDA p : p.name = OLLAMA /\ p.enabled))
        openrouterProvider ==
            First(SelectSeq(cfg.providers, LAMBDA p : p.name = OPENROUTER /\ p.enabled))
        anthropicProvider ==
            First(SelectSeq(cfg.providers, LAMBDA p : p.name = ANTHROPIC /\ p.enabled))
    IN IF /\ reachesThreshold(usagePercent, cfg.thresholds.switchToLocal)
          /\ ollamaProvider # <<>>
          /\ Len(ollamaProvider[1].models) > 0
       THEN createDecision(requestedModel, ollamaProvider[1], ollamaProvider[1].models[1],
                           usagePercent, "switching to local model (free)")
       ELSE IF /\ reachesThreshold(usagePercent, cfg.thresholds.switchToOpenRouter)
               /\ openrouterProvider # <<>>
               /\ Len(openrouterProvider[1].models) > 0
       THEN createDecision(requestedModel, openrouterProvider[1],
                           openrouterProvider[1].models[1],
                           usagePercent, "switching to OpenRouter")
       ELSE IF /\ reachesThreshold(usagePercent, cfg.thresholds.switchToHaiku)
               /\ anthropicProvider # <<>>
       THEN createDecision(requestedModel, anthropicProvider[1], HAIKU,
                           usagePercent, "switching to Haiku (73% cheaper)")
       ELSE noRouting(cfg, requestedModel, usagePercent)

\* the first test of route() on the mode alone
routingOffManualOnly(cfg) == cfg.mode = "manual"

\* !this.config.enabled || this.config.mode === 'manual'
routingOff(cfg) == ~cfg.enabled \/ cfg.mode = "manual"

\* the decision route(requestedModel) returns
route(cfg, rateLimited, resetTime, logs, limits, t, requestedModel) ==
    IF routingOff(cfg) THEN noRouting(cfg, requestedModel, Fin(0, 1))
    ELSE LET usagePercent == predict(logs, limits, t, 5, requestedModel).usagePercent
         IN IF checkRateLimitReset(rateLimited, resetTime, t)
            THEN routeToFallback(cfg, TRUE, requestedModel, usagePercent,
                                 "Rate limited - switching to fallback")
            ELSE routeByThresholds(cfg, requestedModel, usagePercent)

\* the delay recordRateLimit gives setTimeout
resetDelay(resetTime, t) ==
    MaxInt(IF resetTime # NoTime THEN resetTime[1] - t ELSE DEFAULT_RESET, MIN_RESET)

\* ------------------------------------------------------------------------
\* Router operations
\* ------------------------------------------------------------------------
\* the decision the router returns for requestedModel in the current state
routerDecision(requestedModel) ==
    route(config, isRateLimited, rateLimitResetTime, usage_logs, engineLimits, now,
          requestedModel)

\* what router.route(requestedModel) does to the router and the prediction engine
routerRoute(requestedModel) ==
    /\ routingOff(config) \/ dbOpen
    /\ currentModel' = routerDecision(requestedModel).targetModel
    /\ IF routingOff(config)
       THEN UNCHANGED <<isRateLimited, rateLimitResetTime, instance, learnedLimits>>
       ELSE /\ isRateLimited' = checkRateLimitReset(isRateLimited, rateLimitResetTime, now)
            /\ rateLimitResetTime' = resetTimeAfterCheck(rateLimitResetTime, now)
            /\ instance' = TRUE
            /\ learnedLimits' = engineLimits

Route(requestedModel) ==
    /\ routerRoute(requestedModel)
    /\ last' = [op |-> "route",
                requestedModel |-> requestedModel,
                wasRateLimited |-> isRateLimited,
                resetTimeBefore |-> rateLimitResetTime,
                ret |-> routerDecision(requestedModel)]
    /\ UNCHANGED <<clockVars, ledgerVars, config, timers, req, awaiting, accessorVars>>

\* getStatus with the key of each provider in its entry
getStatusWithKeys(cfg, model, rateLimited, resetTime) ==
    [mode |-> cfg.mode,
     enabled |-> cfg.enabled,
     currentModel |-> model,
     isRateLimited |-> rateLimited,
     rateLimitResetTime |-> resetTime,
     providers |-> [i \in DOMAIN cfg.providers |->
                      [name |-> cfg.providers[i].name,
                       enabled |-> cfg.providers[i].enabled,
                       hasApiKey |-> cfg.providers[i].apiKey # Undefined
                                       \/ cfg.providers[i].type = OLLAMA,
                       apiKey |-> cfg.providers[i].apiKey]]]

\* getStatus(): hasApiKey is !!p.apiKey || p.type === 'ollama'
getStatus(cfg, model, rateLimited, resetTime) ==
    [mode |-> cfg.mode,
     enabled |-> cfg.enabled,
     currentModel |-> model,
     isRateLimited |-> rateLimited,
     rateLimitResetTime |-> resetTime,
     providers |-> [i \in DOMAIN cfg.providers |->
                      [name |-> cfg.providers[i].name,
                       enabled |-> cfg.providers[i].enabled,
                       hasApiKey |-> cfg.providers[i].apiKey # Undefined
                                       \/ cfg.providers[i].type = OLLAMA]]]

GetStatus ==
    /\ last' = [op |-> "getStatus",
                ret |-> getStatus(config, currentModel, isRateLimited, rateLimitResetTime)]
    /\ UNCHANGED <<clockVars, ledgerVars, learnerVars, routerVars, req, awaiting, accessorVars>>

\* SmartRouter.recordRateLimit(resetTime?); setTimeout adds a pending timer
routerRecordRateLimit(resetTime) ==
    /\ isRateLimited' = TRUE
    /\ rateLimitResetTime' = resetTime
    /\ timers' = Append(timers, [due |-> now + resetDelay(resetTime, now),
                                 pending |-> TRUE])

RouterRecordRateLimit(resetTime) ==
    /\ Len(timers) < MaxTimers
    /\ routerRecordRateLimit(resetTime)
    /\ last' = [op |-> "recordRateLimit", resetTime |-> resetTime, at |-> now]
    /\ UNCHANGED <<clockVars, ledgerVars, learnerVars, config, currentModel, req, awaiting,
                   accessorVars>>

\* the callback without its two assignments
TimerFireKeepsFlag(i) ==
    /\ i \in DOMAIN timers
    /\ timers[i].pending
    /\ timers[i].due <= now
    /\ timers' = [timers EXCEPT ![i].pending = FALSE]
    /\ last' = [op |-> "timer"]
    /\ UNCHANGED <<clockVars, ledgerVars, learnerVars, config, currentModel, isRateLimited,
                   rateLimitResetTime, req, awaiting, accessorVars>>

\* the delay of the earliest pending setTimeout elapses
TimerElapses ==
    /\ PendingDue(timers) # {}
    /\ \A due \in PendingDue(timers) : due > now
    /\ now' = SetMin(PendingDue(timers))
    /\ last' = [op |-> "elapse"]
    /\ UNCHANGED <<ticks, ledgerVars, learnerVars, routerVars, req, awaiting, accessorVars>>

\* the setTimeout callback of recordRateLimit
TimerFire(i) ==
    /\ i \in DOMAIN timers
    /\ timers[i].pending
    /\ timers[i].due <= now
    /\ isRateLimited' = FALSE
    /\ rateLimitResetTime' = NoTime
    /\ timers' = [timers EXCEPT ![i].pending = FALSE]
    /\ last' = [op |-> "timer"]
    /\ UNCHANGED <<clockVars, ledgerVars, learnerVars, config, currentModel, req, awaiting,
                   accessorVars>>

\* ------------------------------------------------------------------------
\* Initial states
\* ------------------------------------------------------------------------
Provider(name, apiKey, models, enabled, priority) ==
    [name |-> name, type |-> name,
     endpoint |-> IF name = ANTHROPIC THEN "https://api.anthropic.com"
                  ELSE IF name = OPENROUTER THEN "https://openrouter.ai/api/v1"
                  ELSE "http://localhost:11434",
     apiKey |-> apiKey, models |-> models, enabled |-> enabled, priority |-> priority]

\* getDefaultProviders() with ANTHROPIC_API_KEY set, and OPENROUTER_API_KEY and
\* OLLAMA_ENABLED set or not
DefaultProviders(openrouterKey, ollamaEnabled) ==
    <<Provider(ANTHROPIC, "sk-ant", <<SONNET4, HAIKU, OPUS>>, TRUE, 1),
      Provider(OPENROUTER, openrouterKey, <<OR_SONNET, OR_HAIKU>>,
               openrouterKey # Undefined, 2),
      Provider(OLLAMA, Undefined, <<QWEN, DEEPSEEK>>, ollamaEnabled, 3)>>

RoutingConfig(mode, enabled, providers) ==
    [mode |-> mode, enabled |-> enabled,
     thresholds |-> [switchToHaiku |-> SWITCH_TO_HAIKU,
                     switchToOpenRouter |-> SWITCH_TO_OPENROUTER,
                     switchToLocal |-> SWITCH_TO_LOCAL],
     providers |-> providers]

NoRequest == [pc |-> "idle"]

\* a fresh process on an empty database, router and proxy with their defaults
Init ==
    /\ now = 0
    /\ ticks = 0
    /\ usage_logs = <<>>
    /\ rate_limit_events = <<>>
    /\ routing_decisions = <<>>
    /\ sessions = [s \in {0} |-> NewSessionRow(0)]
    /\ sessionId = 0
    /\ dbOpen = TRUE
    /\ storageInstance = TRUE
    /\ instance = FALSE
    /\ learnedLimits = NoLimits
    /\ config = RoutingConfig("full-auto", TRUE, DefaultProviders("sk-or", FALSE))
    /\ currentModel = SONNET4
    /\ isRateLimited = FALSE
    /\ rateLimitResetTime = NoTime
    /\ timers = <<>>
    /\ req = NoRequest
    /\ awaiting = <<>>
    /\ engineStorage = "current"
    /\ routerStorage = "current"
    /\ last = [op |-> "init"]

\* ------------------------------------------------------------------------
\* Cost (calculateCost of the proxy), in units of 1e-8 USD
\* ------------------------------------------------------------------------
\* MODEL_PRICING[model] || MODEL_PRICING['claude-sonnet-4-20250514'], each price
\* per million tokens times 100
Pricing(model) ==
    IF model = HAIKU THEN [input |-> 80, output |-> 400, cacheRead |-> 8, cacheWrite |-> 100]
    ELSE IF model = OPUS
    THEN [input |-> 1500, output |-> 7500, cacheRead |-> 150, cacheWrite |-> 1875]
    ELSE [input |-> 300, output |-> 1500, cacheRead |-> 30, cacheWrite |-> 375]

calculateCost(model, inputTokens, outputTokens, cacheReadTokens, cacheWriteTokens) ==
    inputTokens * Pricing(model).input + outputTokens * Pricing(model).output
      + cacheReadTokens * Pricing(model).cacheRead
      + cacheWriteTokens * Pricing(model).cacheWrite

\* ------------------------------------------------------------------------
\* POST /v1/messages
\* ------------------------------------------------------------------------
\* the handler runs up to its first await (fetch), to the end of the response
\* (response.json(), or the reads of the stream) and then to its return; req is
\* the request in flight and the handler's position

\* what the client is answered, with the state the last step of the handler
\* started from; failure names what was thrown on the way, if anything
Handled(status, upstream, failure) ==
    [op |-> "handled", status |-> status, upstream |-> upstream, failure |-> failure,
     stream |-> IF req.pc = "idle" THEN FALSE ELSE req.stream,
     bodyModel |-> IF req.pc = "idle" THEN Undefined ELSE req.bodyModel,
     shouldRoute |-> IF req.pc = "idle" THEN FALSE ELSE req.decision.shouldRoute,
     decision |-> IF req.pc = "idle" THEN <<>> ELSE <<req.decision>>,
     inputTokens |-> IF req.pc = "idle" THEN 0 ELSE req.inputTokens,
     outputTokens |-> IF req.pc = "idle" THEN 0 ELSE req.outputTokens,
     received |-> IF req.pc = "idle" THEN <<>> ELSE req.received,
     delivered |-> IF req.pc = "idle" THEN <<>> ELSE req.delivered,
     logsBefore |-> usage_logs,
     eventsBefore |-> rate_limit_events,
     decisionsBefore |-> routing_decisions,
     limitsBefore |-> engineLimits,
     flagBefore |-> isRateLimited,
     currentModelBefore |-> currentModel,
     timersBefore |-> timers]

\* the 401 given only after the router was asked
UnauthorizedAfterRoute ==
    /\ req.pc = "idle"
    /\ dbOpen
    /\ routerRoute(HAIKU)
    /\ last' = Handled(401, 0, "none")
    /\ UNCHANGED <<clockVars, ledgerVars, config, timers, req, awaiting, accessorVars>>

\* neither an x-api-key header nor a configured key: 401, before the router is asked
Unauthorized ==
    /\ req.pc = "idle"
    /\ last' = Handled(401, 0, "none")
    /\ UNCHANGED <<clockVars, ledgerVars, learnerVars, routerVars, req, awaiting, accessorVars>>

\* the handler up to `await fetch(...)`: route(body.model), then the request
\* to the target
Receive(bodyModel, stream) ==
    /\ req.pc = "idle"
    /\ dbOpen
    /\ Len(RowsOfSession(usage_logs, sessionId)) + Len(awaiting) < MaxLogs
    /\ Len(rate_limit_events) + Len(awaiting) < MaxEvents
    /\ Len(timers) + Len(awaiting) < MaxTimers
    /\ routerRoute(bodyModel)
    /\ req' = [pc |-> "fetch", bodyModel |-> bodyModel, stream |-> stream,
               decision |-> routerDecision(bodyModel), startTime |-> now,
               latencyMs |-> 0, upstream |-> 0, inputTokens |-> 0, outputTokens |-> 0,
               received |-> <<>>, delivered |-> <<>>]
    /\ last' = [op |-> "receive"]
    /\ UNCHANGED <<clockVars, ledgerVars, config, timers>>
    /\ UNCHANGED <<awaiting, accessorVars>>

\* fetch() rejects (no response from the target): the handler throws, the
\* framework answers 500, nothing is logged
FetchFails ==
    /\ req.pc = "fetch"
    /\ req' = NoRequest
    /\ last' = Handled(500, 0, "fetch")
    /\ UNCHANGED <<clockVars, ledgerVars, learnerVars, routerVars>>
    /\ UNCHANGED <<awaiting, accessorVars>>

\* body.stream false and response.json() rejects (the body is not JSON): the
\* handler throws, the framework answers 500, nothing is logged
BodyFails(status) ==
    /\ req.pc = "fetch"
    /\ ~req.stream
    /\ req' = NoRequest
    /\ last' = Handled(500, status, "json")
    /\ UNCHANGED <<clockVars, ledgerVars, learnerVars, routerVars>>
    /\ UNCHANGED <<awaiting, accessorVars>>

\* the log entry with routedFrom and routingReason filled in on every request
ProxyLogAlwaysRouted(inputTokens, outputTokens, latency, success, errorType) ==
    [timestamp |-> now,
     model |-> req.decision.targetModel,
     provider |-> req.decision.targetProvider,
     inputTokens |-> inputTokens, outputTokens |-> outputTokens,
     cacheReadTokens |-> 0, cacheWriteTokens |-> 0,
     costUsd |-> calculateCost(req.decision.targetModel, inputTokens, outputTokens, 0, 0),
     latencyMs |-> latency, success |-> success, errorType |-> errorType,
     routedFrom |-> req.bodyModel,
     routingReason |-> req.decision.reason]

\* the log entry the handler writes
ProxyLog(inputTokens, outputTokens, latency, success, errorType) ==
    [timestamp |-> now,
     model |-> req.decision.targetModel,
     provider |-> req.decision.targetProvider,
     inputTokens |-> inputTokens, outputTokens |-> outputTokens,
     cacheReadTokens |-> 0, cacheWriteTokens |-> 0,
     costUsd |-> calculateCost(req.decision.targetModel, inputTokens, outputTokens, 0, 0),
     latencyMs |-> latency, success |-> success, errorType |-> errorType,
     routedFrom |-> IF req.decision.shouldRoute THEN req.bodyModel ELSE Undefined,
     routingReason |-> IF req.decision.shouldRoute THEN req.decision.reason
                       ELSE Undefined]

\* data.error?.type of the bodies the upstream sends with each status
ErrorType(status) ==
    IF status = 429 THEN "rate_limit_error" ELSE "api_error"

\* the event of the 429 handling with the tokens of every row of the ledger
ProxyRateLimitEventAllLogs(logs) ==
    [timestamp |-> now, model |-> req.bodyModel, errorType |-> "rate_limit_exceeded",
     resetTime |-> NoTime,
     tokensUsedBeforeLimit |-> TotalTokens(logs),
     windowHours |-> 5]

\* the event the 429 handling records: the tokens of the last five hours, the
\* row just written included
ProxyRateLimitEvent(logs) ==
    [timestamp |-> now, model |-> req.bodyModel, errorType |-> "rate_limit_exceeded",
     resetTime |-> NoTime,
     tokensUsedBeforeLimit |-> TotalTokens(getWindowLogs(logs, now, 5)),
     windowHours |-> 5]

\* body.stream false: the response arrives with `status` and `usage`; addLog,
\* the 429 handling, return. `written` is whether addLog succeeds: when it
\* throws, the handler throws with it and the framework answers 500
Respond(status, usage, written) ==
    /\ req.pc = "fetch"
    /\ ~req.stream
    /\ IF written
       THEN LET log == ProxyLog(usage[1], usage[2], now - req.startTime, status = 200,
                                IF status = 200 THEN Undefined ELSE ErrorType(status))
                logs == addLogRows(usage_logs, log, sessionId)
            IN /\ usage_logs' = logs
               /\ sessions' = addLogSessions(sessions, usage_logs, log, sessionId)
               /\ IF status = 429
                  THEN /\ rate_limit_events' =
                             Append(rate_limit_events, ProxyRateLimitEvent(logs))
                       /\ instance' = TRUE
                       /\ learnedLimits' =
                             trackerRecordRateLimit(engineLimits,
                                                    ProxyRateLimitEvent(logs), now)
                       /\ routerRecordRateLimit(NoTime)
                  ELSE UNCHANGED <<rate_limit_events, learnerVars, isRateLimited,
                                   rateLimitResetTime, timers>>
               /\ last' = Handled(status, status, "none")
       ELSE /\ UNCHANGED <<usage_logs, sessions, rate_limit_events, learnerVars,
                           isRateLimited, rateLimitResetTime, timers>>
            /\ last' = Handled(500, status, "addLog")
    /\ req' = NoRequest
    /\ UNCHANGED <<clockVars, routing_decisions, sessionId, dbOpen, storageInstance, config,
                   currentModel>>
    /\ UNCHANGED <<awaiting, accessorVars>>

\* body.stream true: the response arrives with `status`; the handler returns the
\* stream (answered with status 200) and its callback starts to read
StreamOpen(status) ==
    /\ req.pc = "fetch"
    /\ req.stream
    /\ req' = [req EXCEPT !.pc = "stream", !.upstream = status,
                          !.latencyMs = now - req.startTime]
    /\ last' = [op |-> "streamOpen"]
    /\ UNCHANGED <<clockVars, ledgerVars, learnerVars, routerVars>>
    /\ UNCHANGED <<awaiting, accessorVars>>

\* The text of a chunk is a sequence of tokens: "input_tokens":v, "output_tokens":v,
\* a line break, or any other text without a line break. A chunk boundary falls
\* between two tokens.
InTok(v) == [t |-> "input_tokens", v |-> v]
OutTok(v) == [t |-> "output_tokens", v |-> v]
Newline == [t |-> "newline", v |-> 0]
Other == [t |-> "text", v |-> 0]

\* .*?"output_tokens":(\d+) from position j: the first "output_tokens" at or after
\* j, unless a line break comes before it (. does not match a line break); 0 if
\* there is none
RECURSIVE ScanOutput(_, _)
ScanOutput(text, j) ==
    IF j > Len(text) THEN 0
    ELSE IF text[j].t = "newline" THEN 0
    ELSE IF text[j].t = "output_tokens" THEN j
    ELSE ScanOutput(text, j + 1)

\* the leftmost "input_tokens" at or after position i from which the pattern
\* matches, with the two numbers captured; <<>> if there is none
RECURSIVE MatchFrom(_, _)
MatchFrom(text, i) ==
    IF i > Len(text) THEN <<>>
    ELSE IF text[i].t = "input_tokens" /\ ScanOutput(text, i + 1) # 0
    THEN <<text[i].v, text[ScanOutput(text, i + 1)].v>>
    ELSE MatchFrom(text, i + 1)

\* text.match(/"input_tokens":(\d+).*?"output_tokens":(\d+)/)
usageMatch(text) == MatchFrom(text, 1)

\* the chunk held back: nothing is written to the client
forwardNothing(delivered, value) == delivered

\* stream.write(value): the chunk goes to the client as it is
forward(delivered, value) == Append(delivered, value)

\* reader.read() gives a chunk; stream.write(value) is called
StreamRead(value) ==
    /\ req.pc = "stream"
    /\ Len(req.received) < MaxChunks
    /\ req' = [req EXCEPT !.pc = "write", !.received = Append(req.received, value)]
    /\ last' = [op |-> "streamRead"]
    /\ UNCHANGED <<clockVars, ledgerVars, learnerVars, routerVars>>
    /\ UNCHANGED <<awaiting, accessorVars>>

\* stream.write(value) is done; the chunk is decoded and scanned for the token
\* counts, and the next read starts
StreamWrite ==
    /\ req.pc = "write"
    /\ LET value == req.received[Len(req.received)]
           usage == usageMatch(value)
       IN req' = [req EXCEPT
                     !.pc = "stream",
                     !.delivered = forward(req.delivered, value),
                     !.inputTokens = IF usage = <<>> THEN req.inputTokens ELSE usage[1],
                     !.outputTokens = IF usage = <<>> THEN req.outputTokens ELSE usage[2]]
    /\ last' = [op |-> "streamWrite"]
    /\ UNCHANGED <<clockVars, ledgerVars, learnerVars, routerVars>>
    /\ UNCHANGED <<awaiting, accessorVars>>

\* done: addLog with success true, whatever the status was. `written` is whether
\* addLog succeeds: when it throws, the catch of the callback takes it
StreamEnd(written) ==
    /\ req.pc = "stream"
    /\ IF written
       THEN LET log == ProxyLog(req.inputTokens, req.outputTokens, req.latencyMs, TRUE,
                                Undefined)
            IN /\ usage_logs' = addLogRows(usage_logs, log, sessionId)
               /\ sessions' = addLogSessions(sessions, usage_logs, log, sessionId)
               /\ last' = Handled(200, req.upstream, "none")
       ELSE /\ UNCHANGED <<usage_logs, sessions>>
            /\ last' = Handled(200, req.upstream, "addLog")
    /\ req' = NoRequest
    /\ UNCHANGED <<clockVars, rate_limit_events, routing_decisions, sessionId, dbOpen,
                   storageInstance, learnerVars, routerVars>>
    /\ UNCHANGED <<awaiting, accessorVars>>

\* reader.read() or stream.write() rejects: caught, nothing is logged
StreamError ==
    /\ req.pc \in {"stream", "write"}
    /\ req' = NoRequest
    /\ last' = Handled(200, req.upstream, "read")
    /\ UNCHANGED <<clockVars, ledgerVars, learnerVars, routerVars>>
    /\ UNCHANGED <<awaiting, accessorVars>>

\* ------------------------------------------------------------------------
\* The proxy: requests one at a time, the clock and the router's timers
\* ------------------------------------------------------------------------
ProxySteps == {Hour, 6 * Hour}
BodyModels == {SONNET4}
Statuses == {200, 429, 500}
Usages == {<<0, 0>>, <<10, 20>>}
ProxyChunks == {<<InTok(10), OutTok(20)>>}

Next ==
    \/ Unauthorized
    \/ \E m \in BodyModels, st \in BOOLEAN : Receive(m, st)
    \/ FetchFails
    \/ \E status \in Statuses : BodyFails(status)
    \/ \E status \in Statuses, usage \in Usages, written \in BOOLEAN :
          Respond(status, usage, written)
    \/ \E status \in Statuses : StreamOpen(status)
    \/ \E value \in ProxyChunks : StreamRead(value)
    \/ StreamWrite
    \/ \E written \in BOOLEAN : StreamEnd(written)
    \/ StreamError
    \/ \E d \in ProxySteps : Tick(d)
    \/ \E i \in 1..MaxTimers : TimerFire(i)

Spec == Init /\ [][Next]_vars

\* ------------------------------------------------------------------------
\* Requests handled concurrently
\* ------------------------------------------------------------------------
\* One handler runs at a time, from one await to the next. A handler at an await
\* (fetch, response.json(), reader.read(), stream.write()) lets the others run:
\* req is the handler whose await is the next to settle, awaiting holds the rest.

\* the handler in req stays at its await while another request is taken up
Await ==
    /\ req.pc # "idle"
    /\ awaiting' = Append(awaiting, req)
    /\ req' = NoRequest
    /\ last' = [op |-> "await"]
    /\ UNCHANGED <<clockVars, ledgerVars, learnerVars, routerVars, accessorVars>>

\* the await of the i-th of the other handlers is the next to settle
Resume(i) ==
    /\ req.pc = "idle"
    /\ i \in DOMAIN awaiting
    /\ req' = awaiting[i]
    /\ awaiting' = SubSeq(awaiting, 1, i - 1) \o SubSeq(awaiting, i + 1, Len(awaiting))
    /\ last' = [op |-> "resume"]
    /\ UNCHANGED <<clockVars, ledgerVars, learnerVars, routerVars, accessorVars>>

\* every request is answered 429 by the upstream, and nothing fails on the way
NextConcurrent ==
    \/ \E st \in BOOLEAN : Receive(SONNET4, st)
    \/ \E usage \in Usages : Respond(429, usage, TRUE)
    \/ StreamOpen(429)
    \/ \E value \in ProxyChunks : StreamRead(value)
    \/ StreamWrite
    \/ StreamEnd(TRUE)
    \/ Await
    \/ \E i \in 1..MaxLogs : Resume(i)

SpecConcurrent == Init /\ [][NextConcurrent]_vars

\* ------------------------------------------------------------------------
\* One streaming request after the other, over the ways the upstream can cut
\* its body into chunks
\* ------------------------------------------------------------------------
\* a chunk with a complete pair; the two halves of a pair; a chunk with a pair,
\* a line break and another pair; a chunk without usage
StreamChunks ==
    {<<InTok(7), OutTok(11)>>,
     <<Other, InTok(7)>>,
     <<OutTok(11), Other>>,
     <<InTok(1), OutTok(2), Newline, InTok(7), OutTok(11)>>,
     <<Other>>}

NextStream ==
    \/ Receive(SONNET4, TRUE)
    \/ StreamOpen(200)
    \/ \E value \in StreamChunks : StreamRead(value)
    \/ StreamWrite
    \/ StreamEnd(TRUE)
    \/ StreamError

SpecStream == Init /\ [][NextStream]_vars

\* ------------------------------------------------------------------------
\* The request sent to the target (the translation of the adapters)
\* ------------------------------------------------------------------------
\* A string is a sequence of characters. The content of a message is a string,
\* [kind |-> "string", text |-> s], or an array of parts, [kind |-> "parts",
\* parts |-> ps]; a part is [type, hasText, text], hasText false for a part
\* without a text field (c.text is undefined). An optional field of the body is
\* <<>> when absent and <<value>> when present.
StringContent(text) == [kind |-> "string", text |-> text]
PartsContent(parts) == [kind |-> "parts", parts |-> parts]
TextPart(text) == [type |-> "text", hasText |-> TRUE, text |-> text]
ImagePart == [type |-> "image", hasText |-> FALSE, text |-> <<>>]

\* Array.prototype.join('\n') on strings
RECURSIVE JoinLines(_)
JoinLines(strings) ==
    IF strings = <<>> THEN <<>>
    ELSE IF Len(strings) = 1 THEN strings[1]
    ELSE strings[1] \o <<"\n">> \o JoinLines(Tail(strings))

\* m.content.map(c => c.text).join('\n'): join turns undefined into ''
joinTexts(parts) ==
    JoinLines([i \in DOMAIN parts |-> IF parts[i].hasText THEN parts[i].text ELSE <<>>])

\* typeof m.content === 'string' ? m.content : m.content.map(c => c.text).join('\n')
flattenContent(content) ==
    IF content.kind = "string" THEN content.text ELSE joinTexts(content.parts)

\* body.messages.map(m => ({ role: m.role, content: ... }))
flattenMessages(messages) ==
    [i \in DOMAIN messages |->
        [role |-> messages[i].role, content |-> flattenContent(messages[i].content)]]

\* the test on the presence of the field alone
hasSystem(system) == system # <<>>

\* if (body.system): a string is truthy unless it is empty
truthy(system) == system # <<>> /\ system[1] # <<>>

\* requestBody.messages after `if (body.system) ...`
withSystem(system, messages) ==
    IF truthy(system) THEN <<[role |-> "system", content |-> system[1]]>> \o messages
    ELSE messages

\* requestBody for the target provider
requestBody(targetProvider, targetModel, body) ==
    IF targetProvider = OPENROUTER
    THEN [model |-> targetModel,
          messages |-> withSystem(body.system, flattenMessages(body.messages)),
          max_tokens |-> body.max_tokens,
          stream |-> body.stream,
          system |-> <<>>]
    ELSE IF targetProvider = OLLAMA
    THEN [model |-> targetModel,
          messages |-> withSystem(body.system, flattenMessages(body.messages)),
          max_tokens |-> <<>>,
          stream |-> body.stream,
          system |-> <<>>]
    ELSE [body EXCEPT !.model = targetModel]

\* the handler from the routing decision to the call of fetch
BuildRequest(targetProvider, targetModel, body) ==
    /\ last' = [op |-> "buildRequest", targetProvider |-> targetProvider,
                targetModel |-> targetModel, body |-> body,
                ret |-> requestBody(targetProvider, targetModel, body)]
    /\ UNCHANGED <<clockVars, ledgerVars, learnerVars, routerVars, req, awaiting, accessorVars>>

\* routingDecision.targetApiKey || originalApiKey
targetApiKey(decisionKey, originalApiKey) ==
    IF decisionKey \in {Undefined, ""} THEN originalApiKey ELSE decisionKey

\* the headers of the request to the target: pairs of a name and a value, the
\* value being the pieces of text it is put together from
headers(targetProvider, key, beta) ==
    IF targetProvider = OPENROUTER
    THEN {<<"Content-Type", <<"application/json">>>>,
          <<"Authorization", <<"Bearer ", key>>>>,
          <<"HTTP-Referer", <<"https://claude-cruise.local">>>>,
          <<"X-Title", <<"Claude Cruise Proxy">>>>}
    ELSE IF targetProvider = OLLAMA
    THEN {<<"Content-Type", <<"application/json">>>>}
    ELSE {<<"Content-Type", <<"application/json">>>>,
          <<"x-api-key", <<key>>>>,
          <<"anthropic-version", <<"2023-06-01">>>>,
          <<"anthropic-beta", <<beta>>>>}

\* the handler from the x-api-key header of the client and the decision of the
\* router to the headers it gives fetch
BuildHeaders(targetProvider, decisionKey, clientKey) ==
    /\ last' = [op |-> "buildHeaders", targetProvider |-> targetProvider,
                decisionKey |-> decisionKey, clientKey |-> clientKey,
                ret |-> headers(targetProvider, targetApiKey(decisionKey, clientKey), "")]
    /\ UNCHANGED <<clockVars, ledgerVars, learnerVars, routerVars, req, awaiting, accessorVars>>

\* a string; an array of two text parts; an array with a part without text
\* between two text parts; an empty array
Messages ==
    {[role |-> "user", content |-> StringContent(<<"U">>)],
     [role |-> "assistant",
      content |-> PartsContent(<<TextPart(<<"a">>), TextPart(<<"b">>)>>)],
     [role |-> "user",
      content |-> PartsContent(<<TextPart(<<"a">>), ImagePart, TextPart(<<"b">>)>>)],
     [role |-> "assistant", content |-> PartsContent(<<>>)]}
MessageLists == UNION {[1..n -> Messages] : n \in 0..MaxMessages}
\* no system field, the empty string, "S"
Systems == {<<>>, <<<<>>>>, <<<<"S">>>>}
Bodies ==
    [model : {SONNET4}, messages : MessageLists, system : Systems,
     max_tokens : {<<16>>}, stream : BOOLEAN]
\* the targets the router can name
Targets == {<<ANTHROPIC, HAIKU>>, <<OPENROUTER, OR_SONNET>>, <<OLLAMA, QWEN>>}

\* the x-api-key header of the client; the apiKey of the provider of the decision
ClientKeys == {"sk-ant-client", "sk-ant-other"}
DecisionKeys == {Undefined, "", "sk-provider"}

NextAdapter ==
    \/ \E target \in Targets, body \in Bodies : BuildRequest(target[1], target[2], body)
    \/ \E target \in Targets, decisionKey \in DecisionKeys, clientKey \in ClientKeys :
          BuildHeaders(target[1], decisionKey, clientKey)

SpecAdapter == Init /\ [][NextAdapter]_vars

\* ------------------------------------------------------------------------
\* The ledger alone: addLog, cleanup, close and reopen, as time passes
\* ------------------------------------------------------------------------
LedgerSteps == {1, 31 * Day}
RetentionDays == {0, DEFAULT_RETENTION_DAYS}
LedgerTokens == {<<10, 20>>, <<7, 11>>}

\* a session of an earlier process, 40 days old, with one row
OldSession == 0 - 40 * Day
OldRow == fullLog(LogEntry(OldSession + 1, SONNET4, ANTHROPIC, 100, 200,
                           calculateCost(SONNET4, 100, 200, 0, 0)), OldSession)

InitLedger ==
    /\ now = 0
    /\ ticks = 0
    /\ \/ /\ usage_logs = <<>>
          /\ sessions = [s \in {0} |-> NewSessionRow(0)]
       \/ /\ usage_logs = <<OldRow>>
          /\ sessions = [s \in {OldSession, 0} |->
                IF s = 0 THEN NewSessionRow(0)
                ELSE [startedAt |-> OldSession, endedAt |-> Time(OldSession + 2),
                      totalCost |-> OldRow.costUsd, totalTokens |-> 300]]
    /\ rate_limit_events = <<>>
    /\ routing_decisions = <<>>
    /\ sessionId = 0
    /\ dbOpen = TRUE
    /\ storageInstance = TRUE
    /\ instance = FALSE
    /\ learnedLimits = NoLimits
    /\ config = RoutingConfig("full-auto", TRUE, DefaultProviders("sk-or", FALSE))
    /\ currentModel = SONNET4
    /\ isRateLimited = FALSE
    /\ rateLimitResetTime = NoTime
    /\ timers = <<>>
    /\ req = NoRequest
    /\ awaiting = <<>>
    /\ engineStorage = "current"
    /\ routerStorage = "current"
    /\ last = [op |-> "init"]

NextLedger ==
    \/ \E tok \in LedgerTokens :
          AddLog(LogEntry(now, SONNET4, ANTHROPIC, tok[1], tok[2],
                          calculateCost(SONNET4, tok[1], tok[2], 0, 0)))
    \/ \E d \in RetentionDays : Cleanup(d)
    \/ \E d \in LedgerSteps : Tick(d)
    \/ Close
    \/ CloseStorageAdapter
    \/ Open

SpecLedger == InitLedger /\ [][NextLedger]_vars

\* ------------------------------------------------------------------------
\* Learner and prediction engine operations
\* ------------------------------------------------------------------------
RateLimitEvent(t, model, tokens) ==
    [timestamp |-> t, model |-> model, errorType |-> "rate_limit_exceeded",
     resetTime |-> NoTime, tokensUsedBeforeLimit |-> tokens,
     windowHours |-> DEFAULT_WINDOW_HOURS]

\* getPredictionEngine(store).recordRateLimit(event): addRateLimitEvent, then the
\* update of the learned entry
EngineRecordRateLimit(event) ==
    /\ dbOpen
    /\ Len(rate_limit_events) < MaxEvents
    /\ rate_limit_events' = Append(rate_limit_events, event)
    /\ instance' = TRUE
    /\ learnedLimits' = trackerRecordRateLimit(engineLimits, event, now)
    /\ last' = [op |-> "engineRecordRateLimit", event |-> event]
    /\ UNCHANGED <<clockVars, usage_logs, routing_decisions, sessions, sessionId, dbOpen,
                   storageInstance, routerVars, req, awaiting, accessorVars>>

\* getPredictionEngine(store).predict(5, model)
Predict(model) ==
    /\ dbOpen
    /\ instance' = TRUE
    /\ learnedLimits' = engineLimits
    /\ last' = [op |-> "predict", model |-> model,
                ret |-> predict(usage_logs, engineLimits, now, 5, model)]
    /\ UNCHANGED <<clockVars, ledgerVars, routerVars, req, awaiting, accessorVars>>

\* ------------------------------------------------------------------------
\* The prediction engine over a ledger that fills as time passes
\* ------------------------------------------------------------------------
PredictorSteps == {Hour, 6 * Hour}
PredictorTokens == {<<0, 0>>, <<5, 10>>, <<30, 40>>}
EventTokens == {0, 100}
PredictedModels == {SONNET4, HAIKU}

\* an empty database, or one that holds a rate limit event of an earlier process
InitPredictor ==
    /\ now = 0
    /\ ticks = 0
    /\ usage_logs = <<>>
    /\ rate_limit_events \in {<<>>, <<RateLimitEvent(0 - Day, SONNET4, 100)>>}
    /\ routing_decisions = <<>>
    /\ sessions = [s \in {0} |-> NewSessionRow(0)]
    /\ sessionId = 0
    /\ dbOpen = TRUE
    /\ storageInstance = TRUE
    /\ instance = FALSE
    /\ learnedLimits = NoLimits
    /\ config = RoutingConfig("full-auto", TRUE, DefaultProviders("sk-or", FALSE))
    /\ currentModel = SONNET4
    /\ isRateLimited = FALSE
    /\ rateLimitResetTime = NoTime
    /\ timers = <<>>
    /\ req = NoRequest
    /\ awaiting = <<>>
    /\ engineStorage = "current"
    /\ routerStorage = "current"
    /\ last = [op |-> "init"]

NextPredictor ==
    \/ \E tok \in PredictorTokens :
          AddLog(LogEntry(now, SONNET4, ANTHROPIC, tok[1], tok[2],
                          calculateCost(SONNET4, tok[1], tok[2], 0, 0)))
    \/ \E tokens \in EventTokens : EngineRecordRateLimit(RateLimitEvent(now, SONNET4, tokens))
    \/ \E m \in PredictedModels : Predict(m)
    \/ \E d \in PredictorSteps : Tick(d)

SpecPredictor == InitPredictor /\ [][NextPredictor]_vars

\* ------------------------------------------------------------------------
\* The trend over a ledger that holds a row of an earlier process
\* ------------------------------------------------------------------------
TrendSteps == {Hour, 4 * Hour}

\* the database after a process that started a day ago, logged 15 tokens two
\* hours ago and ended an hour ago
InitTrend ==
    /\ now = 0
    /\ ticks = 0
    /\ usage_logs = <<fullLog(LogEntry(0 - 2 * Hour, SONNET4, ANTHROPIC, 5, 10,
                                       calculateCost(SONNET4, 5, 10, 0, 0)), 0 - Day)>>
    /\ rate_limit_events = <<>>
    /\ routing_decisions = <<>>
    /\ sessions = [s \in {0 - Day, 0} |->
                     IF s = 0 THEN NewSessionRow(0)
                     ELSE [startedAt |-> 0 - Day, endedAt |-> Time(0 - Hour),
                           totalCost |-> calculateCost(SONNET4, 5, 10, 0, 0),
                           totalTokens |-> 15]]
    /\ sessionId = 0
    /\ dbOpen = TRUE
    /\ storageInstance = TRUE
    /\ instance = FALSE
    /\ learnedLimits = NoLimits
    /\ config = RoutingConfig("full-auto", TRUE, DefaultProviders("sk-or", FALSE))
    /\ currentModel = SONNET4
    /\ isRateLimited = FALSE
    /\ rateLimitResetTime = NoTime
    /\ timers = <<>>
    /\ req = NoRequest
    /\ awaiting = <<>>
    /\ engineStorage = "current"
    /\ routerStorage = "current"
    /\ last = [op |-> "init"]

NextTrend ==
    \/ \E tok \in PredictorTokens :
          AddLog(LogEntry(now, SONNET4, ANTHROPIC, tok[1], tok[2],
                          calculateCost(SONNET4, tok[1], tok[2], 0, 0)))
    \/ \E m \in PredictedModels : Predict(m)
    \/ \E d \in TrendSteps : Tick(d)

SpecTrend == InitTrend /\ [][NextTrend]_vars

\* ------------------------------------------------------------------------
\* The prediction as GET /stats and the data service report it
\* ------------------------------------------------------------------------
\* isFinite(x)
isFinite(x) == x.k = "fin"

\* the prediction's minutesUntilLimit passed on as it is
reportedMinutesRaw(minutesUntilLimit) == minutesUntilLimit

\* isFinite(prediction.minutesUntilLimit) ? prediction.minutesUntilLimit : 999
reportedMinutes(minutesUntilLimit) ==
    IF isFinite(minutesUntilLimit) THEN minutesUntilLimit ELSE Fin(999, 1)

\* the prediction part of the answer
PredictionData(prediction) ==
    [usagePercent |-> prediction.usagePercent,
     minutesUntilLimit |-> reportedMinutes(prediction.minutesUntilLimit),
     velocity |-> prediction.velocity.tokensPerHour,
     confidence |-> prediction.confidence,
     trend |-> prediction.velocity.trend]

\* GET /stats: predict(5, 'claude-sonnet-4-20250514') on the engine singleton
Stats ==
    /\ dbOpen
    /\ instance' = TRUE
    /\ learnedLimits' = engineLimits
    /\ last' = [op |-> "stats", model |-> SONNET4,
                windowTokens |-> TotalTokens(getWindowLogs(usage_logs, now, 5)),
                prediction |-> predict(usage_logs, engineLimits, now, 5, SONNET4),
                ret |-> PredictionData(predict(usage_logs, engineLimits, now, 5, SONNET4))]
    /\ UNCHANGED <<clockVars, ledgerVars, routerVars, req, awaiting, accessorVars>>

\* DataService.getPredictionData(model)
GetPredictionData(model) ==
    /\ dbOpen
    /\ instance' = TRUE
    /\ learnedLimits' = engineLimits
    /\ last' = [op |-> "getPredictionData", model |-> model,
                windowTokens |-> TotalTokens(getWindowLogs(usage_logs, now, 5)),
                prediction |-> predict(usage_logs, engineLimits, now, 5, model),
                ret |-> PredictionData(predict(usage_logs, engineLimits, now, 5, model))]
    /\ UNCHANGED <<clockVars, ledgerVars, routerVars, req, awaiting, accessorVars>>

\* tokens of the one usage log the ledger holds: none, and 23, 70, 96 and 98
\* percent of the default limit of the Sonnet models
StatsSeeds == {0, 1154000, 3500000, 4800000, 4900000}

InitStats ==
    /\ now = 0
    /\ ticks = 0
    /\ \/ usage_logs = <<>>
       \/ \E tokens \in StatsSeeds :
             usage_logs = <<fullLog(LogEntry(0, SONNET4, ANTHROPIC, tokens, 0,
                                             calculateCost(SONNET4, tokens, 0, 0, 0)), 0)>>
    /\ rate_limit_events = <<>>
    /\ routing_decisions = <<>>
    /\ sessions = [s \in {0} |-> NewSessionRow(0)]
    /\ sessionId = 0
    /\ dbOpen = TRUE
    /\ storageInstance = TRUE
    /\ instance = FALSE
    /\ learnedLimits = NoLimits
    /\ config = RoutingConfig("full-auto", TRUE, DefaultProviders("sk-or", FALSE))
    /\ currentModel = SONNET4
    /\ isRateLimited = FALSE
    /\ rateLimitResetTime = NoTime
    /\ timers = <<>>
    /\ req = NoRequest
    /\ awaiting = <<>>
    /\ engineStorage = "current"
    /\ routerStorage = "current"
    /\ last = [op |-> "init"]

NextStats ==
    \/ Stats
    \/ \E m \in PredictedModels : Predict(m)
    \/ \E m \in PredictedModels : GetPredictionData(m)
    \/ \E tokens \in EventTokens : EngineRecordRateLimit(RateLimitEvent(now, SONNET4, tokens))
    \/ \E d \in PredictorSteps : Tick(d)

SpecStats == InitStats /\ [][NextStats]_vars

\* ------------------------------------------------------------------------
\* The limit learner alone: events recorded one after the other
\* ------------------------------------------------------------------------
LearnerTokens == {1, 79, 100}
LearnerModels == {SONNET4, HAIKU}

\* recordRateLimit on the engine, up to MaxLearnerEvents times
LearnerRecord(event) ==
    /\ dbOpen
    /\ Len(SelectSeq(rate_limit_events, LAMBDA e : e.timestamp >= 0)) < MaxLearnerEvents
    /\ rate_limit_events' = Append(rate_limit_events, event)
    /\ instance' = TRUE
    /\ learnedLimits' = trackerRecordRateLimit(engineLimits, event, now)
    /\ last' = [op |-> "engineRecordRateLimit", event |-> event,
                limitsBefore |-> engineLimits]
    /\ UNCHANGED <<clockVars, usage_logs, routing_decisions, sessions, sessionId, dbOpen,
                   storageInstance, routerVars, req, awaiting, accessorVars>>

\* the events an earlier process left in the database: none, one of yesterday,
\* or one of yesterday and one older than the 30 days loadLearnedLimits reads
StoredEvents ==
    {<<>>,
     <<RateLimitEvent(0 - Day, SONNET4, 100)>>,
     <<RateLimitEvent(0 - 40 * Day, SONNET4, 79), RateLimitEvent(0 - Day, SONNET4, 100)>>}

InitLearner ==
    /\ now = 0
    /\ ticks = 0
    /\ usage_logs = <<>>
    /\ rate_limit_events \in StoredEvents
    /\ routing_decisions = <<>>
    /\ sessions = [s \in {0} |-> NewSessionRow(0)]
    /\ sessionId = 0
    /\ dbOpen = TRUE
    /\ storageInstance = TRUE
    /\ instance = FALSE
    /\ learnedLimits = NoLimits
    /\ config = RoutingConfig("full-auto", TRUE, DefaultProviders("sk-or", FALSE))
    /\ currentModel = SONNET4
    /\ isRateLimited = FALSE
    /\ rateLimitResetTime = NoTime
    /\ timers = <<>>
    /\ req = NoRequest
    /\ awaiting = <<>>
    /\ engineStorage = "current"
    /\ routerStorage = "current"
    /\ last = [op |-> "init"]

NextLearner ==
    \/ \E tokens \in LearnerTokens, m \in LearnerModels :
          LearnerRecord(RateLimitEvent(now, m, tokens))
    \/ Predict(SONNET4)

SpecLearner == InitLearner /\ [][NextLearner]_vars

\* ------------------------------------------------------------------------
\* route() over the provider configurations, usage levels and the flag
\* ------------------------------------------------------------------------
\* provider lists: the primary enabled or not; openrouter and ollama disabled,
\* enabled, or enabled with an empty model list; ollama before or after openrouter
ProviderLists ==
    {<<Provider(ANTHROPIC, "sk-ant", <<SONNET4, HAIKU, OPUS>>, a, 1),
       Provider(OPENROUTER, "sk-or", o[2], o[1], 2),
       Provider(OLLAMA, Undefined, l[2], l[1], l[3])>> :
        a \in BOOLEAN,
        o \in {<<FALSE, <<OR_SONNET, OR_HAIKU>>>>, <<TRUE, <<OR_SONNET, OR_HAIKU>>>>,
               <<TRUE, <<>>>>},
        l \in {<<FALSE, <<QWEN, DEEPSEEK>>, 3>>, <<TRUE, <<QWEN, DEEPSEEK>>, 3>>,
               <<TRUE, <<QWEN, DEEPSEEK>>, 1>>, <<TRUE, <<>>, 1>>}}

RouterSettings ==
    {<<"full-auto", TRUE>>, <<"semi-auto", TRUE>>, <<"manual", TRUE>>, <<"full-auto", FALSE>>}

\* tokens of the one usage log the ledger holds: 70, 85, 95 and 190 percent of the
\* default limit of the Sonnet models
UsageSeeds == {3500000, 4250000, 4750000, 9500000}
RequestedModels == {SONNET4, HAIKU}
\* recordRateLimit(): no reset time, or one that has passed already
RouteResetTimes == {NoTime, Time(now - 1)}

InitRoute ==
    /\ now = 0
    /\ ticks = 0
    /\ \/ usage_logs = <<>>
       \/ \E tokens \in UsageSeeds :
             usage_logs = <<fullLog(LogEntry(0, SONNET4, ANTHROPIC, tokens, 0, 0), 0)>>
    /\ rate_limit_events = <<>>
    /\ routing_decisions = <<>>
    /\ sessions = [s \in {0} |-> NewSessionRow(0)]
    /\ sessionId = 0
    /\ dbOpen = TRUE
    /\ storageInstance = TRUE
    /\ instance = FALSE
    /\ learnedLimits = NoLimits
    /\ \E s \in RouterSettings, ps \in ProviderLists :
          config = RoutingConfig(s[1], s[2], ps)
    /\ currentModel = SONNET4
    /\ isRateLimited = FALSE
    /\ rateLimitResetTime = NoTime
    /\ timers = <<>>
    /\ req = NoRequest
    /\ awaiting = <<>>
    /\ engineStorage = "current"
    /\ routerStorage = "current"
    /\ last = [op |-> "init"]

NextRoute ==
    \/ \E m \in RequestedModels : Route(m)
    \/ GetStatus
    \/ \E rt \in RouteResetTimes : RouterRecordRateLimit(rt)

SpecRoute == InitRoute /\ [][NextRoute]_vars

\* ------------------------------------------------------------------------
\* The singletons and the adapter each of them holds
\* ------------------------------------------------------------------------
\* An adapter is "current" when it is the one the storage singleton constructed
\* last, "old" when the singleton has constructed another since: an old adapter
\* was closed by closeStorageAdapter(). The caller of an accessor passes the
\* adapter getStorageAdapter() returns.

\* getPredictionEngine(storage): the argument is used only when there is no
\* instance; the constructor reads the events and throws on a closed adapter
GetPredictionEngine ==
    /\ storageInstance
    /\ IF ~instance /\ dbOpen
       THEN /\ instance' = TRUE
            /\ learnedLimits' = engineLimits
            /\ engineStorage' = "current"
       ELSE UNCHANGED <<learnerVars, engineStorage>>
    /\ last' = [op |-> "getPredictionEngine", threw |-> ~instance /\ ~dbOpen,
                storage |-> engineStorage']
    /\ UNCHANGED <<clockVars, ledgerVars, routerVars, routerStorage, req, awaiting>>

\* getRouter(storage): a new SmartRouter when routerInstance is null; the timers
\* of an earlier router keep their own router
GetRouter ==
    /\ storageInstance
    /\ IF routerStorage = "none"
       THEN /\ routerStorage' = "current"
            /\ config' = RoutingConfig("full-auto", TRUE, DefaultProviders("sk-or", FALSE))
            /\ currentModel' = SONNET4
            /\ isRateLimited' = FALSE
            /\ rateLimitResetTime' = NoTime
            /\ timers' = <<>>
       ELSE UNCHANGED <<routerVars, routerStorage>>
    /\ last' = [op |-> "getRouter", storage |-> routerStorage']
    /\ UNCHANGED <<clockVars, ledgerVars, learnerVars, engineStorage, req, awaiting>>

\* resetRouter()
ResetRouter ==
    /\ routerStorage' = "none"
    /\ last' = [op |-> "resetRouter"]
    /\ UNCHANGED <<clockVars, ledgerVars, learnerVars, routerVars, engineStorage, req,
                   awaiting>>

\* getRouter(store).route(requestedModel): the engine is the one
\* getPredictionEngine(this.storage) returns, and predict() reads the adapter
\* that engine holds; a closed adapter throws
RouteOn(requestedModel) ==
    /\ storageInstance
    /\ routerStorage # "none"
    /\ LET ledger == IF instance THEN engineStorage ELSE routerStorage
       IN /\ IF ledger = "current" /\ dbOpen
             THEN /\ routerRoute(requestedModel)
                  /\ engineStorage' = ledger
             ELSE /\ isRateLimited' =
                        checkRateLimitReset(isRateLimited, rateLimitResetTime, now)
                  /\ rateLimitResetTime' = resetTimeAfterCheck(rateLimitResetTime, now)
                  /\ UNCHANGED <<currentModel, learnerVars, engineStorage>>
          /\ last' = [op |-> "routeOn", requestedModel |-> requestedModel,
                      ledger |-> ledger, threw |-> ~(ledger = "current" /\ dbOpen)]
    /\ UNCHANGED <<clockVars, ledgerVars, config, timers, routerStorage, req, awaiting>>

\* the 429 handling: getPredictionEngine(store).recordRateLimit(event) writes
\* the event to the adapter the engine holds; a closed adapter throws
RecordOn ==
    /\ storageInstance
    /\ dbOpen
    /\ Len(rate_limit_events) < MaxEvents
    /\ LET ledger == IF instance THEN engineStorage ELSE "current"
           event == [timestamp |-> now, model |-> SONNET4,
                     errorType |-> "rate_limit_exceeded", resetTime |-> NoTime,
                     tokensUsedBeforeLimit |->
                         TotalTokens(getWindowLogs(usage_logs, now, 5)),
                     windowHours |-> 5]
       IN /\ IF ledger = "current"
             THEN /\ rate_limit_events' = Append(rate_limit_events, event)
                  /\ instance' = TRUE
                  /\ learnedLimits' = trackerRecordRateLimit(engineLimits, event, now)
             ELSE UNCHANGED <<rate_limit_events, learnerVars>>
          /\ last' = [op |-> "recordOn", ledger |-> ledger, threw |-> ledger # "current"]
    /\ UNCHANGED <<clockVars, usage_logs, routing_decisions, sessions, sessionId, dbOpen,
                   storageInstance, routerVars, req, awaiting, accessorVars>>

AccessorSteps == {Hour}

NextAccessors ==
    \/ CloseStorageAdapter
    \/ Open
    \/ GetPredictionEngine
    \/ GetRouter
    \/ ResetRouter
    \/ RouteOn(SONNET4)
    \/ RecordOn
    \/ \E d \in AccessorSteps : Tick(d)

SpecAccessors == Init /\ [][NextAccessors]_vars

\* ------------------------------------------------------------------------
\* The rate-limit flag, its timers and route() as time passes
\* ------------------------------------------------------------------------
TimerSteps == {45, Hour, 5 * Hour}
\* recordRateLimit(): no reset time, one 30 seconds ahead, one two hours ahead
TimerResetTimes == {NoTime, Time(now + 30), Time(now + 2 * Hour)}

NextTimer ==
    \/ \E d \in TimerSteps : Tick(d)
    \/ \E rt \in TimerResetTimes : RouterRecordRateLimit(rt)
    \/ \E i \in 1..MaxTimers : TimerFire(i)
    \/ Route(SONNET4)

SpecTimer == Init /\ [][NextTimer]_vars

\* recordRateLimit() called without a reset time only, as the 429 handling of
\* the proxy calls it, with the timers running to their deadlines
NextTimerDefault ==
    \/ \E d \in TimerSteps : Tick(d)
    \/ RouterRecordRateLimit(NoTime)
    \/ TimerElapses
    \/ \E i \in 1..MaxTimers : TimerFire(i)
    \/ Route(SONNET4)

SpecTimerDefault == Init /\ [][NextTimerDefault]_vars

\* The same with the event loop's guarantee: the delay of a pending timer
\* elapses, and the callback of a timer that is due runs.
NextTimerFair ==
    \/ NextTimer
    \/ TimerElapses

SpecTimerFair ==
    /\ Init
    /\ [][NextTimerFair]_vars
    /\ WF_vars(TimerElapses)
    /\ WF_vars(\E i \in 1..MaxTimers : TimerFire(i))

\* ------------------------------------------------------------------------
\* Claims on the ledger
\* ------------------------------------------------------------------------
SessionTotalsMatch(s) ==
    /\ sessions[s].totalCost = TotalCost(RowsOfSession(usage_logs, s))
    /\ sessions[s].totalTokens = TotalTokens(RowsOfSession(usage_logs, s))

\* C7: immediately after addLog returns, the current session's total_cost is the
\* sum of cost_usd and its total_tokens the sum of input_tokens + output_tokens
\* over the usage_logs rows of that session.
C7_TotalsAfterAddLog == last.op = "addLog" => SessionTotalsMatch(sessionId)

\* C7 witness: addLog has just returned on a session that holds two rows beside
\* the row of another session.
C7_Witness ==
    /\ last.op = "addLog"
    /\ Len(RowsOfSession(usage_logs, sessionId)) = 2
    /\ Len(usage_logs) = 3
    /\ sessions[sessionId].totalTokens > 0

\* C8: in every reachable state, each session's stored totals are the sums over
\* the usage_logs rows now stored with its session_id.
C8_TotalsAlways == \A s \in DOMAIN sessions : SessionTotalsMatch(s)

\* C24: cleanup(N) deletes exactly the usage_logs rows with a timestamp strictly
\* before now - N days, returns how many it deleted, and leaves the other
\* usage_logs rows and the rate_limit_events, routing_decisions and sessions
\* rows as they were.
C24_CleanupDeletesOldRows ==
    last.op = "cleanup" =>
        LET old(r) == r.timestamp < now - last.retentionDays * Day
        IN /\ usage_logs = SelectSeq(last.before, LAMBDA r : ~old(r))
           /\ last.ret = Cardinality({i \in DOMAIN last.before : old(last.before[i])})
           /\ rate_limit_events = last.eventsBefore
           /\ routing_decisions = last.decisionsBefore
           /\ sessions = last.sessionsBefore

\* C24 witness: cleanup has deleted the one row of an earlier session, whose
\* sessions row keeps its totals, and has kept a row of the current session.
C24_Witness ==
    /\ last.op = "cleanup"
    /\ last.ret = 1
    /\ RowsOfSession(usage_logs, sessionId) # <<>>
    /\ \E s \in DOMAIN sessions :
          RowsOfSession(usage_logs, s) = <<>> /\ sessions[s].totalTokens > 0

\* C25: the first close() on an adapter sets ended_at on its session and closes
\* the handle; a second close() on the same adapter completes without error and
\* leaves the sessions rows as they were.
C25_CloseIdempotent ==
    last.op = "close" =>
        /\ ~dbOpen
        /\ last.wasOpen => sessions[sessionId].endedAt = Time(now)
        /\ ~last.wasOpen => (~last.threw /\ sessions = last.sessionsBefore)

\* ------------------------------------------------------------------------
\* Claims on the prediction engine
\* ------------------------------------------------------------------------
\* C9: predict() returns a usage_percent that is a number with
\* 0 <= usage_percent <= 100.
C9_UsagePercentInRange ==
    last.op = "predict" =>
        /\ last.ret.usagePercent.k = "fin"
        /\ last.ret.usagePercent.n >= 0
        /\ last.ret.usagePercent.n <= 100 * last.ret.usagePercent.d

\* C10: the recommended_action of every Prediction is the value of the decision
\* table at the returned usage_percent, minutes_until_limit and velocity.pattern:
\* pause if minutes_until_limit < 10 or usage_percent > 95; else switch_provider if
\* usage_percent > 85 or (pattern = burst and usage_percent > 70); else
\* switch_model if usage_percent > 70; else continue.
C10_ActionFollowsTable ==
    last.op = "predict" =>
        LET u == last.ret.usagePercent
            m == last.ret.minutesUntilLimit
            burst == last.ret.velocity.pattern = "burst"
            over(c) == u.k = "fin" /\ u.n > c * u.d
            soon == m.k = "fin" /\ m.n < 10 * m.d
        IN last.ret.recommendedAction =
              CASE soon \/ over(95) -> "pause"
                [] ~(soon \/ over(95)) /\ (over(85) \/ (burst /\ over(70))) -> "switch_provider"
                [] ~(soon \/ over(95)) /\ ~(over(85) \/ (burst /\ over(70))) /\ over(70)
                     -> "switch_model"
                [] OTHER -> "continue"

\* C10 witness: predict() has recommended switch_provider by the burst clause, at
\* a usage above 70 and not above 85 percent.
C10_Witness ==
    /\ last.op = "predict"
    /\ last.ret.recommendedAction = "switch_provider"
    /\ last.ret.velocity.pattern = "burst"
    /\ ~NumGT(last.ret.usagePercent, 85)

\* the last operation reported a prediction, through GET /stats or the data service
Reported == last.op \in {"stats", "getPredictionData"}

\* the reported minutesUntilLimit is a finite number, and the prediction is
\* unbounded exactly when the window of five hours holds no tokens
ReportedFinite ==
    /\ last.ret.minutesUntilLimit.k = "fin"
    /\ last.prediction.minutesUntilLimit.k # "fin" <=> last.windowTokens = 0

\* the prediction's value is passed on when it is finite, and it is an integer
FinitePassedOn ==
    last.prediction.minutesUntilLimit.k = "fin" =>
        /\ last.ret.minutesUntilLimit = last.prediction.minutesUntilLimit
        /\ last.ret.minutesUntilLimit.d = 1

\* C30 as stated: the reported minutesUntilLimit is finite; it is 999 exactly
\* when the prediction is unbounded, which is exactly when the window holds no
\* tokens, and the prediction's floored value otherwise.
C30_SentinelIffUnbounded ==
    Reported =>
        /\ ReportedFinite
        /\ last.ret.minutesUntilLimit = Fin(999, 1)
              <=> last.prediction.minutesUntilLimit.k # "fin"
        /\ FinitePassedOn

\* C30 amended: the reported minutesUntilLimit is finite; it is 999 whenever the
\* prediction is unbounded, which is exactly when the window holds no tokens,
\* and the prediction's floored value otherwise, which can be 999 as well.
C30_SentinelWhenUnbounded ==
    Reported =>
        /\ ReportedFinite
        /\ last.prediction.minutesUntilLimit.k # "fin"
              => last.ret.minutesUntilLimit = Fin(999, 1)
        /\ FinitePassedOn

\* C30 witness: GET /stats reported 999 minutes for a window that holds tokens,
\* the prediction itself being 999.
C30_Witness ==
    /\ last.op = "stats"
    /\ last.windowTokens > 0
    /\ last.prediction.minutesUntilLimit = Fin(999, 1)
    /\ last.ret.minutesUntilLimit = Fin(999, 1)

\* ------------------------------------------------------------------------
\* Claims on the router
\* ------------------------------------------------------------------------
\* the flag was set when route() was called and its reset time had not passed
LimitedAtRoute ==
    /\ last.op = "route"
    /\ last.wasRateLimited
    /\ ~(last.resetTimeBefore # NoTime /\ now > last.resetTimeBefore[1])

\* the enabled providers other than the primary, and those of them with a model
EnabledFallbacks ==
    {i \in DOMAIN config.providers :
        config.providers[i].enabled /\ config.providers[i].name # ANTHROPIC}
UsableFallbacks == {i \in EnabledFallbacks : Len(config.providers[i].models) > 0}

\* the provider of lowest priority number in a set of positions of the list
LowestPriority(S) ==
    CHOOSE i \in S : \A j \in S : config.providers[i].priority <= config.providers[j].priority

\* the decision names provider i of the list and the first of its models
TargetsFirstModelOf(i) ==
    /\ last.ret.targetProvider = config.providers[i].name
    /\ last.ret.targetModel \in
          {config.providers[i].models[k] : k \in DOMAIN config.providers[i].models \cap {1}}

\* C1 as stated: whenever the flag is set when route() is called, in every mode
\* and provider configuration, the decision does not target the primary.
C1_NeverPrimaryWhenLimited ==
    (last.op = "route" /\ last.wasRateLimited) => last.ret.targetProvider # ANTHROPIC

\* C1 amended: with routing enabled and not manual, the flag set with a reset
\* time that is unset or has not passed, and an enabled provider other than the
\* primary that has a model, the decision of route() does not target the primary.
C1_NeverPrimaryWhenFallbackUsable ==
    (LimitedAtRoute /\ ~routingOff(config) /\ UsableFallbacks # {})
        => last.ret.targetProvider # ANTHROPIC

\* C1 witness: route() ran rate limited with the primary enabled at the lowest
\* priority number and sent the request elsewhere.
C1_Witness ==
    /\ LimitedAtRoute /\ ~routingOff(config) /\ UsableFallbacks # {}
    /\ config.providers[1].enabled
    /\ \A i \in EnabledFallbacks : config.providers[i].priority > config.providers[1].priority
    /\ last.ret.targetProvider # ANTHROPIC

\* C3 as stated: routing enabled, not manual, the flag set and some enabled
\* non-primary provider with a model: route() returns the enabled non-primary
\* provider of smallest priority number with its first model, shouldRoute true.
C3_FallbackIsLowestEnabled ==
    (last.op = "route" /\ last.wasRateLimited /\ ~routingOff(config)
       /\ UsableFallbacks # {})
        => /\ TargetsFirstModelOf(LowestPriority(EnabledFallbacks))
           /\ last.ret.shouldRoute

\* C3 amended: under the same conditions and a reset time that is unset or has
\* not passed, route() returns, whatever the usage, the provider of smallest
\* priority number among the enabled non-primary providers that have a model,
\* with its first model and shouldRoute true.
C3_FallbackIsLowestUsable ==
    (LimitedAtRoute /\ ~routingOff(config) /\ UsableFallbacks # {})
        => /\ TargetsFirstModelOf(LowestPriority(UsableFallbacks))
           /\ last.ret.shouldRoute

\* C3 witness: rate limited at a usage under every threshold, route() chose the
\* provider listed last because its priority number is the smallest.
C3_Witness ==
    /\ LimitedAtRoute /\ ~routingOff(config)
    /\ Cardinality(UsableFallbacks) = 2
    /\ LowestPriority(UsableFallbacks) = 3
    /\ NumLT(last.ret.usagePercent, SWITCH_TO_HAIKU)
    /\ last.ret.targetProvider = OLLAMA

\* route() took the threshold cascade: routing on and the flag not set
CascadeAtRoute == last.op = "route" /\ ~last.wasRateLimited /\ ~routingOff(config)

\* the enabled provider of a name, as a set of positions of the list
EnabledNamed(name) ==
    {i \in DOMAIN config.providers :
        config.providers[i].name = name /\ config.providers[i].enabled}

\* the decision is the requested model on the primary
IsNoRouting ==
    /\ last.ret.targetProvider = ANTHROPIC
    /\ last.ret.targetModel = last.requestedModel

\* the cascade on the returned usagePercent, a step being open to the
\* providers in the set Local, respectively Remote
CascadeHolds(Local, Remote) ==
    LET u == last.ret.usagePercent
    IN IF NumGE(u, SWITCH_TO_LOCAL) /\ Local # {}
       THEN TargetsFirstModelOf(SetMin(Local))
       ELSE IF NumGE(u, SWITCH_TO_OPENROUTER) /\ Remote # {}
       THEN TargetsFirstModelOf(SetMin(Remote))
       ELSE IF NumGE(u, SWITCH_TO_HAIKU) /\ EnabledNamed(ANTHROPIC) # {}
       THEN last.ret.targetProvider = ANTHROPIC /\ last.ret.targetModel = HAIKU
       ELSE IsNoRouting

\* C4 as stated: not rate limited, route() follows the cascade local, openrouter,
\* Haiku, no routing, a step being taken when its threshold is reached and its
\* provider is enabled.
C4_CascadeOverEnabled ==
    CascadeAtRoute => CascadeHolds(EnabledNamed(OLLAMA), EnabledNamed(OPENROUTER))

\* C4 amended: the same cascade, the local and the openrouter step being taken
\* when the threshold is reached and the provider is enabled and has a model; a
\* step whose provider is disabled or has no model falls through to the next.
C4_CascadeOverUsable ==
    CascadeAtRoute =>
        CascadeHolds(EnabledNamed(OLLAMA) \cap UsableFallbacks,
                     EnabledNamed(OPENROUTER) \cap UsableFallbacks)

\* C4 witness: at a usage of 95 percent or more the local provider was enabled
\* without a model and route() went on to openrouter.
C4_Witness ==
    /\ CascadeAtRoute
    /\ NumGE(last.ret.usagePercent, SWITCH_TO_LOCAL)
    /\ EnabledNamed(OLLAMA) # {} /\ EnabledNamed(OLLAMA) \cap UsableFallbacks = {}
    /\ last.ret.targetProvider = OPENROUTER

\* C5: on every path of route(), shouldRoute is true exactly when the target
\* model differs from the requested model or the target provider is not the
\* primary.
C5_ShouldRouteIff ==
    last.op = "route" =>
        (last.ret.shouldRoute <=>
            (last.ret.targetModel # last.requestedModel
               \/ last.ret.targetProvider # ANTHROPIC))

\* C5 witness: the cascade chose Haiku on the primary for a request that asked
\* for Haiku, and shouldRoute is false.
C5_Witness ==
    /\ last.op = "route"
    /\ last.ret.reason = "switching to Haiku (73% cheaper)"
    /\ last.requestedModel = HAIKU
    /\ ~last.ret.shouldRoute

\* C26: with routing disabled or the mode manual, route() returns the requested
\* model on the primary with shouldRoute false and estimatedSavings 0, at every
\* usage and whatever the flag is, and leaves the flag and its reset time as
\* they were.
C26_NoRoutingWhenOff ==
    (last.op = "route" /\ (~config.enabled \/ config.mode = "manual")) =>
        /\ last.ret.targetModel = last.requestedModel
        /\ last.ret.targetProvider = ANTHROPIC
        /\ ~last.ret.shouldRoute
        /\ last.ret.estimatedSavings = 0
        /\ isRateLimited = last.wasRateLimited
        /\ rateLimitResetTime = last.resetTimeBefore

\* C26 witness: route() was called with routing disabled in mode full-auto, the
\* flag set with a reset time that has passed, and the window at 95 percent of
\* the limit or more; the flag is still set.
C26_Witness ==
    /\ last.op = "route"
    /\ ~config.enabled /\ config.mode = "full-auto"
    /\ last.wasRateLimited
    /\ last.resetTimeBefore # NoTime /\ now > last.resetTimeBefore[1]
    /\ TotalTokens(usage_logs) >= 4750000
    /\ isRateLimited
    /\ last.ret.targetModel = SONNET4

\* C6: after the latest recordRateLimit call, made at T, the flag is set at every
\* instant before T + max(60 s, resetTime - T), or T + 5 h without a reset time.
C6_FlagHeldUntilDelay ==
    (timers # <<>> /\ now < timers[Len(timers)].due) => isRateLimited
\* ------------------------------------------------------------------------
\* Claims on the proxy
\* ------------------------------------------------------------------------
\* the data points of the learned entry of a model
DataPoints(limits, model) ==
    IF model \in DOMAIN limits THEN limits[model].dataPoints ELSE 0

\* C2: when a POST /v1/messages whose upstream answered 429 has been handled,
\* streaming or not, one rate limit event more is stored, for the requested
\* model, the learned entry of that model has one data point more, and the
\* router's flag is set.
C2_RateLimitRecorded ==
    (last.op = "handled" /\ last.upstream = 429) =>
        /\ Len(rate_limit_events) = Len(last.eventsBefore) + 1
        /\ rate_limit_events[Len(rate_limit_events)].model = last.bodyModel
        /\ DataPoints(learnedLimits, last.bodyModel)
              = DataPoints(last.limitsBefore, last.bodyModel) + 1
        /\ isRateLimited
\* ------------------------------------------------------------------------
\* Claims on the limit learner
\* ------------------------------------------------------------------------
\* the tokens of the stored events of a model, and of those among them that a
\* learner constructed now reads (the last 30 days)
TokensOf(m) ==
    LET es == EventsOfModel(rate_limit_events, m)
    IN [i \in DOMAIN es |-> es[i].tokensUsedBeforeLimit]
ReadableEvents(m) ==
    SelectSeq(EventsOfModel(rate_limit_events, m), LAMBDA e : e.timestamp >= now - 30 * Day)

\* no event of the model was stored before the engine was constructed
NoPriorEvents(m) ==
    \A i \in DOMAIN rate_limit_events :
        rate_limit_events[i].model = m => rate_limit_events[i].timestamp >= 0

\* floor((0.95 * t_1 + ... + 0.95 * t_N) / N)
AverageLimit(ts) == (SumSeq(ts) * 19) \div (20 * Len(ts))

\* C11: for a model without prior events, after N >= 1 recorded events the
\* learned tokenLimit is within 1 of floor((0.95 t_1 + ... + 0.95 t_N) / N).
C11_LimitIsAverage ==
    instance =>
        \A m \in DOMAIN learnedLimits :
            NoPriorEvents(m) =>
                /\ learnedLimits[m].tokenLimit - AverageLimit(TokensOf(m)) <= 1
                /\ AverageLimit(TokensOf(m)) - learnedLimits[m].tokenLimit <= 1

\* C12: each learned entry has as many dataPoints as events contributed to it,
\* those read at construction and those recorded since, and its confidence is
\* min(100, 20 * dataPoints).
C12_ConfidenceFromDataPoints ==
    instance =>
        \A m \in DOMAIN learnedLimits :
            /\ learnedLimits[m].dataPoints = Len(ReadableEvents(m))
            /\ learnedLimits[m].confidence = MinInt(100, 20 * learnedLimits[m].dataPoints)
            /\ learnedLimits[m].confidence <= 100

\* C12 witness: an entry read from a stored event has taken five more events
\* and its confidence stays at 100.
C12_Witness ==
    /\ instance
    /\ last.op = "engineRecordRateLimit"
    /\ SONNET4 \in DOMAIN last.limitsBefore
    /\ SONNET4 \in DOMAIN learnedLimits
    /\ learnedLimits[SONNET4].dataPoints = 6
    /\ learnedLimits[SONNET4].confidence = 100

\* C13: a learner that started empty and one constructed now from the stored
\* events (all of the last 30 days) hold the same tokenLimit, windowHours,
\* confidence and dataPoints for every model.
C13_ReloadEqualsMemory ==
    (instance /\ \A m \in LearnerModels : NoPriorEvents(m)) =>
        LET fresh == loadLearnedLimits(rate_limit_events, now)
        IN /\ DOMAIN fresh = DOMAIN learnedLimits
           /\ \A m \in DOMAIN fresh :
                /\ fresh[m].tokenLimit = learnedLimits[m].tokenLimit
                /\ fresh[m].windowHours = learnedLimits[m].windowHours
                /\ fresh[m].confidence = learnedLimits[m].confidence
                /\ fresh[m].dataPoints = learnedLimits[m].dataPoints
\* the last step of the handler stored a rate limit event: its 429 handling ran
RateLimitHandled ==
    /\ last.op = "handled"
    /\ Len(rate_limit_events) = Len(last.eventsBefore) + 1

\* input + output tokens of the rows of the last five hours
WindowTokens ==
    SumSeq([i \in DOMAIN usage_logs |->
              IF usage_logs[i].timestamp >= now - 5 * Hour
              THEN usage_logs[i].inputTokens + usage_logs[i].outputTokens ELSE 0])

\* C14: when the 429 handling has run, the event it stored carries the tokens of
\* all rows of the last five hours and windowHours 5; if the requested model had
\* no earlier event, its learned tokenLimit is floor(0.95 * that sum), with
\* confidence 20 and dataPoints 1.
C14_EventCarriesWindowTokens ==
    RateLimitHandled =>
        LET e == rate_limit_events[Len(rate_limit_events)]
        IN /\ e.tokensUsedBeforeLimit = WindowTokens
           /\ e.windowHours = 5
           /\ (\A i \in DOMAIN last.eventsBefore : last.eventsBefore[i].model # e.model)
                => /\ e.model \in DOMAIN learnedLimits
                   /\ learnedLimits[e.model].tokenLimit = (WindowTokens * 19) \div 20
                   /\ learnedLimits[e.model].confidence = 20
                   /\ learnedLimits[e.model].dataPoints = 1

\* C14 witness: the first 429 was handled while the ledger held a row older than
\* five hours with tokens, and tokens within the window.
C14_Witness ==
    /\ RateLimitHandled
    /\ last.eventsBefore = <<>>
    /\ WindowTokens > 0
    /\ \E i \in DOMAIN usage_logs :
          /\ usage_logs[i].timestamp < now - 5 * Hour
          /\ usage_logs[i].inputTokens > 0

\* C15: when a request whose decision has shouldRoute true has been handled, one
\* more routing decision row is stored.
C15_RoutingDecisionStored ==
    (last.op = "handled" /\ last.failure = "none" /\ last.shouldRoute) =>
        Len(routing_decisions) = Len(last.decisionsBefore) + 1

\* C16: when a request that got a response from the upstream has been handled,
\* streaming or not, one more usage log is stored (the ledger itself working).
C16_OneLogPerRequest ==
    (last.op = "handled" /\ last.upstream # 0 /\ last.failure # "addLog") =>
        Len(usage_logs) = Len(last.logsBefore) + 1

C18_TransportErrorLogged ==
    (last.op = "handled" /\ last.failure = "fetch") =>
        /\ last.status >= 500
        /\ Len(usage_logs) = Len(last.logsBefore) + 1
        /\ ~usage_logs[Len(usage_logs)].success

\* C19: when addLog throws, streaming or not, the client is still answered with
\* the status the upstream gave.
C19_LedgerFailureNotFatal ==
    (last.op = "handled" /\ last.failure = "addLog") => last.status = last.upstream

\* C20: when reading the stream fails, a usage log with the token counts found
\* so far is stored.
C20_StreamErrorLogged ==
    (last.op = "handled" /\ last.failure = "read") =>
        /\ Len(usage_logs) = Len(last.logsBefore) + 1
        /\ usage_logs[Len(usage_logs)].inputTokens = last.inputTokens
        /\ usage_logs[Len(usage_logs)].outputTokens = last.outputTokens

\* C21: when a request whose upstream answered with a status outside 2xx has
\* been handled, streaming or not, the usage log written for it has success
\* false and the error type of the upstream's error body, and the client is
\* answered with the upstream's status.
C21_ErrorStatusLogged ==
    (last.op = "handled" /\ last.failure = "none" /\ last.upstream >= 300) =>
        /\ Len(usage_logs) = Len(last.logsBefore) + 1
        /\ ~usage_logs[Len(usage_logs)].success
        /\ usage_logs[Len(usage_logs)].errorType = ErrorType(last.upstream)
        /\ last.status = last.upstream

\* ------------------------------------------------------------------------
\* Claims on the stream
\* ------------------------------------------------------------------------
\* the text of a sequence of chunks, one after the other
RECURSIVE Concat(_)
Concat(chunks) == IF chunks = <<>> THEN <<>> ELSE Head(chunks) \o Concat(Tail(chunks))

IsPrefix(s, t) == Len(s) <= Len(t) /\ SubSeq(t, 1, Len(s)) = s

\* the positions of a text where "output_tokens":b stands with an
\* "input_tokens":a somewhere before it
PairEnds(text) ==
    {j \in DOMAIN text :
        /\ text[j].t = "output_tokens"
        /\ \E i \in 1..(j - 1) : text[i].t = "input_tokens"}

\* the last complete pair of a text: the last such "output_tokens" and the
\* "input_tokens" nearest before it
LastPair(text) ==
    LET j == SetMax(PairEnds(text))
        i == SetMax({k \in 1..(j - 1) : text[k].t = "input_tokens"})
    IN <<text[i].v, text[j].v>>

\* the last step of the handler ended a stream that was read to its end
StreamCompleted == last.op = "handled" /\ last.stream /\ last.failure = "none"

\* C22: when a stream whose body holds "input_tokens":a and later
\* "output_tokens":b has completed, however the body was cut into chunks, one
\* usage log was written and it records a and b, those of the last complete pair.
C22_StreamUsageLogged ==
    (StreamCompleted /\ PairEnds(Concat(last.received)) # {}) =>
        /\ Len(usage_logs) = Len(last.logsBefore) + 1
        /\ usage_logs[Len(usage_logs)].inputTokens = LastPair(Concat(last.received))[1]
        /\ usage_logs[Len(usage_logs)].outputTokens = LastPair(Concat(last.received))[2]

\* C23: while a stream is read, what the client has been sent is a prefix of
\* what the upstream has sent, at most the chunk just read is still to be
\* written, and nothing is when the next read starts; when the stream has
\* completed the client has been sent all of it, unmodified.
C23_ChunksPassedThrough ==
    /\ req.pc \in {"stream", "write"} =>
          /\ IsPrefix(Concat(req.delivered), Concat(req.received))
          /\ Len(req.received) - Len(req.delivered) = (IF req.pc = "write" THEN 1 ELSE 0)
    /\ StreamCompleted => last.delivered = last.received

\* C23 witness: a stream of two chunks has completed, the halves of a usage
\* pair in different chunks, and the client has both.
C23_Witness ==
    /\ StreamCompleted
    /\ Len(last.delivered) = 2
    /\ usageMatch(last.delivered[1]) = <<>>
    /\ usageMatch(Concat(last.delivered)) # <<>>

\* ------------------------------------------------------------------------
\* Claims on the request sent to the target
\* ------------------------------------------------------------------------
\* the request went to an OpenAI-compatible or a local-chat provider
Translated == last.op = "buildRequest" /\ last.targetProvider \in {OPENROUTER, OLLAMA}

\* the strings of a list joined with line breaks, character by character: the
\* strings in order, one line break between two neighbours
IsJoinOf(text, strings) ==
    /\ Len(text) = SumSeq([i \in DOMAIN strings |-> Len(strings[i])])
                     + (IF strings = <<>> THEN 0 ELSE Len(strings) - 1)
    /\ \A i \in DOMAIN strings :
          LET start == SumSeq([k \in 1..(i - 1) |-> Len(strings[k]) + 1])
          IN /\ SubSeq(text, start + 1, start + Len(strings[i])) = strings[i]
             /\ i < Len(strings) => text[start + Len(strings[i]) + 1] = "\n"

\* the text fields of the parts that have one
TextFields(parts) ==
    LET withText == SelectSeq(parts, LAMBDA c : c.hasText)
    IN [i \in DOMAIN withText |-> withText[i].text]

\* the text of every part, the empty string for a part without a text field
TextOrEmpty(parts) ==
    [i \in DOMAIN parts |-> IF parts[i].hasText THEN parts[i].text ELSE <<>>]

\* the strings to join for the content of each input message: for an array of
\* parts the text fields there are (skipMissing), or one string per part
TextsToJoin(skipMissing) ==
    [i \in DOMAIN last.body.messages |->
        IF last.body.messages[i].content.kind = "string" THEN <<>>
        ELSE IF skipMissing THEN TextFields(last.body.messages[i].content.parts)
        ELSE TextOrEmpty(last.body.messages[i].content.parts)]

\* the outbound messages are a system message iff `lead`, then one message per
\* input message with its role and, for an array of parts, the join of texts[i]
MessagesAre(lead, texts) ==
    LET in == last.body.messages
        out == last.ret.messages
        k == IF lead THEN 1 ELSE 0
    IN /\ Len(out) = Len(in) + k
       /\ lead => out[1] = [role |-> "system", content |-> last.body.system[1]]
       /\ \A i \in DOMAIN in :
             /\ out[i + k].role = in[i].role
             /\ IF in[i].content.kind = "string"
                THEN out[i + k].content = in[i].content.text
                ELSE IsJoinOf(out[i + k].content, texts[i])

\* model, stream and max_tokens of the outbound body
FieldsAre ==
    /\ last.ret.model = last.targetModel
    /\ last.ret.stream = last.body.stream
    /\ last.targetProvider = OPENROUTER => last.ret.max_tokens = last.body.max_tokens

\* C27 as stated: the outbound messages start with a system message iff the
\* input has a system field, followed by one message per input message, same
\* order and role, its content the input string or the text fields of the parts
\* joined with line breaks; model, stream and max_tokens as given.
C27_MessagesFlattened ==
    Translated => MessagesAre(last.body.system # <<>>, TextsToJoin(TRUE)) /\ FieldsAre

\* C27 amended: the system message is there iff the input's system field is
\* present and not the empty string; the content of an array of parts is the
\* join with line breaks of one string per part, its text or the empty string
\* if the part has no text field; the rest as stated.
C27_MessagesFlattenedTruthy ==
    Translated =>
        MessagesAre(last.body.system # <<>> /\ last.body.system[1] # <<>>, TextsToJoin(FALSE))
          /\ FieldsAre

\* C27 witness: a body with system "S" and two messages, one a string and one
\* an array with a part without text, went to the OpenAI-compatible provider.
C27_Witness ==
    /\ Translated /\ last.targetProvider = OPENROUTER
    /\ last.body.system = <<<<"S">>>>
    /\ Len(last.body.messages) = 2
    /\ last.body.messages[1].content.kind = "string"
    /\ last.body.messages[2].content.kind = "parts"
    /\ \E i \in DOMAIN last.body.messages[2].content.parts :
          ~last.body.messages[2].content.parts[i].hasText
    /\ Len(last.ret.messages) = 3
    /\ last.ret.messages[3].content = <<"a", "\n", "\n", "b">>

\* ------------------------------------------------------------------------
\* Claims on the rows the proxy writes
\* ------------------------------------------------------------------------
\* the last step of the handler wrote a usage log
LogWritten == last.op = "handled" /\ Len(usage_logs) = Len(last.logsBefore) + 1

\* C28: the usage log the handler writes has the target model and the target
\* provider of the routing decision; its routedFrom (the requested model) and
\* its routingReason are set if and only if the decision has shouldRoute true.
C28_LogFollowsDecision ==
    LogWritten =>
        LET log == usage_logs[Len(usage_logs)]
            decision == last.decision[1]
        IN /\ log.model = decision.targetModel
           /\ log.provider = decision.targetProvider
           /\ log.routedFrom # Undefined <=> decision.shouldRoute
           /\ log.routingReason # Undefined <=> decision.shouldRoute
           /\ decision.shouldRoute =>
                 log.routedFrom = last.bodyModel /\ log.routingReason = decision.reason

\* C28 witness: a request for Sonnet was sent to another provider and its log
\* names the requested model, after one that was not routed.
C28_Witness ==
    /\ LogWritten
    /\ last.shouldRoute
    /\ usage_logs[Len(usage_logs)].provider # ANTHROPIC
    /\ usage_logs[Len(usage_logs)].routedFrom = SONNET4
    /\ Len(usage_logs) = 2
    /\ usage_logs[1].routedFrom = Undefined

\* the pricing table of the specification, per million tokens times 100: the
\* Sonnet, Haiku and Opus models, the local models at 0, the OpenAI-compatible
\* mirrors at 3.5 / 16 and 1 / 5 without cache prices, Sonnet prices for any
\* other model
TablePrice(model) ==
    IF model = HAIKU THEN [input |-> 80, output |-> 400, cacheRead |-> 8, cacheWrite |-> 100]
    ELSE IF model = OPUS
    THEN [input |-> 1500, output |-> 7500, cacheRead |-> 150, cacheWrite |-> 1875]
    ELSE IF model \in {QWEN, DEEPSEEK}
    THEN [input |-> 0, output |-> 0, cacheRead |-> 0, cacheWrite |-> 0]
    ELSE IF model = OR_SONNET
    THEN [input |-> 350, output |-> 1600, cacheRead |-> 0, cacheWrite |-> 0]
    ELSE IF model = OR_HAIKU
    THEN [input |-> 100, output |-> 500, cacheRead |-> 0, cacheWrite |-> 0]
    ELSE [input |-> 300, output |-> 1500, cacheRead |-> 30, cacheWrite |-> 375]

\* C29: the costUsd of the usage log the handler writes is the sum of its four
\* token counts, each times the price of the log's model in the pricing table,
\* over a million.
C29_CostFromPricingTable ==
    LogWritten =>
        LET log == usage_logs[Len(usage_logs)]
            price == TablePrice(log.model)
        IN log.costUsd = log.inputTokens * price.input + log.outputTokens * price.output
                           + log.cacheReadTokens * price.cacheRead
                           + log.cacheWriteTokens * price.cacheWrite

\* ------------------------------------------------------------------------
\* Claims on the status, on concurrent handlers, on the accessors and on the trend
\* ------------------------------------------------------------------------
\* other values for the keys of the providers
OtherKeys == {"sk-1", "sk-2"}

\* the configuration with the key of every provider that has one replaced
Rekey(cfg, keys) ==
    [cfg EXCEPT !.providers =
        [i \in DOMAIN cfg.providers |->
            IF cfg.providers[i].apiKey = Undefined THEN cfg.providers[i]
            ELSE [cfg.providers[i] EXCEPT !.apiKey = keys[i]]]]

\* C31: getStatus returns the same result in any two router states that differ
\* only in the values of the providers' keys, and each provider entry of the
\* result has the fields name, enabled and hasApiKey (a boolean) and no other.
C31_StatusHidesKeys ==
    last.op = "getStatus" =>
        /\ \A i \in DOMAIN last.ret.providers :
              /\ DOMAIN last.ret.providers[i] = {"name", "enabled", "hasApiKey"}
              /\ last.ret.providers[i].hasApiKey \in BOOLEAN
        /\ \A keys \in [DOMAIN config.providers -> OtherKeys] :
              getStatus(Rekey(config, keys), currentModel, isRateLimited,
                        rateLimitResetTime) = last.ret

\* C31 witness: getStatus was called on a rate limited router with two
\* providers that have a key and one that has none.
C31_Witness ==
    /\ last.op = "getStatus"
    /\ isRateLimited
    /\ last.ret.providers[1].hasApiKey /\ last.ret.providers[2].hasApiKey
    /\ config.providers[3].apiKey = Undefined
    /\ Rekey(config, [i \in DOMAIN config.providers |-> "sk-1"]) # config

\* the handlers that have completed: each of them wrote one row
Completed == Len(usage_logs)

\* C32: when K handlers that run concurrently, each answered 429 by the upstream
\* for the same model, have all completed, K events are stored, the learned
\* entry of the model has K data points and the router is rate limited.
C32_EveryHandlerRecords ==
    (req.pc = "idle" /\ awaiting = <<>>) =>
        /\ Len(rate_limit_events) = Completed
        /\ DataPoints(engineLimits, SONNET4) = Completed
        /\ Completed >= 1 => isRateLimited

\* the same for handlers of requests with stream false: no update is lost in
\* any interleaving
JsonHandlersRecord ==
    (req.pc = "idle" /\ awaiting = <<>>
       /\ \A i \in DOMAIN usage_logs : usage_logs[i].success = FALSE) =>
        /\ Len(rate_limit_events) = Completed
        /\ DataPoints(engineLimits, SONNET4) = Completed
        /\ Completed >= 1 => isRateLimited

\* two handlers with stream false were in flight together and have completed
JsonHandlersWitness ==
    /\ req.pc = "idle" /\ awaiting = <<>>
    /\ Len(usage_logs) = 2
    /\ \A i \in DOMAIN usage_logs : usage_logs[i].success = FALSE
    /\ usage_logs[1].routingReason = Undefined
    /\ usage_logs[2].routingReason = Undefined

\* the router is not rate limited, and a route() just made selected by the
\* usage thresholds
ClearedAndByThresholds ==
    /\ ~isRateLimited
    /\ rateLimitResetTime = NoTime
    /\ last.op = "route" =>
          last.ret = routeByThresholds(config, last.requestedModel,
                         predict(usage_logs, engineLimits, now, 5,
                                 last.requestedModel).usagePercent)

\* C33: after the last of finitely many recordRateLimit calls the flag is
\* eventually false and the reset time unset, for good, and every route() from
\* then on selects by the usage thresholds.
C33_EventuallyCleared == <>[]ClearedAndByThresholds

\* C33 witness: a timer callback has cleared the flag set by two
\* recordRateLimit calls, none of whose timers is pending any more.
C33_Witness ==
    /\ last.op = "timer"
    /\ Len(timers) = 2
    /\ PendingDue(timers) = {}
    /\ ~isRateLimited
    /\ rateLimitResetTime = NoTime

\* the time of the i-th recordRateLimit call, all calls being without reset time
CalledAt(i) == timers[i].due - DEFAULT_RESET

\* C34: after recordRateLimit() at T1 and again at T2, with T1 < T2 < T1 + 5 h
\* and both without reset time, the flag is set from T2 until T2 + 5 h.
C34_LaterFlagOutlivesEarlierTimer ==
    \A i \in DOMAIN timers :
        (/\ i >= 2
         /\ i = Len(timers)
         /\ CalledAt(i - 1) < CalledAt(i)
         /\ CalledAt(i) < CalledAt(i - 1) + DEFAULT_RESET
         /\ CalledAt(i) <= now
         /\ now < CalledAt(i) + DEFAULT_RESET)
        => isRateLimited

\* C35: a handler stores a RateLimitEvent, updates the learned limit or sets the
\* flag only when the 429 it was answered came from the primary provider.
C35_OnlyPrimaryRecords ==
    (/\ last.op = "handled"
     /\ \/ rate_limit_events # last.eventsBefore
        \/ engineLimits # last.limitsBefore
        \/ isRateLimited /\ ~last.flagBefore
        \/ timers # last.timersBefore)
    => /\ last.upstream = 429
       /\ last.decision # <<>>
       /\ last.decision[1].targetProvider = ANTHROPIC

\* C36: after any sequence of accessor calls, getPredictionEngine(s) and
\* getRouter(s) return a component that holds the adapter s they were given,
\* and route() and the 429 handling operate on that adapter, which is open.
C36_AccessorsFollowLedger ==
    /\ (last.op = "getPredictionEngine" /\ ~last.threw) => last.storage = "current"
    /\ last.op = "getRouter" => last.storage = "current"
    /\ last.op \in {"routeOn", "recordOn"} => (last.ledger = "current" /\ ~last.threw)

\* C37: the headers of a request to a provider other than the primary do not
\* hold the client's x-api-key and are the same whatever that key is: they
\* depend only on the apiKey configured for the provider, set or not.
C37_ClientKeyStaysWithPrimary ==
    (last.op = "buildHeaders" /\ last.targetProvider # ANTHROPIC) =>
        /\ \A h \in last.ret : last.clientKey \notin Range(h[2])
        /\ \A clientKey \in ClientKeys :
              headers(last.targetProvider, targetApiKey(last.decisionKey, clientKey), "")
                = last.ret

\* C38: predict() over the 5 hour window with a positive token limit gives
\* minutesUntilLimit < 10 only when usagePercent > 95, and recommends "pause"
\* exactly when usagePercent > 95.
C38_PauseIffOver95 ==
    (/\ last.op = "predict"
     /\ getLearnedLimit(learnedLimits, last.model, now).tokenLimit > 0)
    => /\ NumLT(last.ret.minutesUntilLimit, 10) => NumGT(last.ret.usagePercent, 95)
       /\ last.ret.recommendedAction = "pause" <=> NumGT(last.ret.usagePercent, 95)

\* C38 witness: predict() found less than 10 minutes left at a usage between 95
\* and 100 percent of a positive limit, and recommended "pause".
C38_Witness ==
    /\ last.op = "predict"
    /\ getLearnedLimit(learnedLimits, last.model, now).tokenLimit > 0
    /\ NumLT(last.ret.minutesUntilLimit, 10)
    /\ NumGT(last.ret.usagePercent, 95)
    /\ ~NumGE(last.ret.usagePercent, 100)
    /\ last.ret.tokensRemaining > 0
    /\ last.ret.recommendedAction = "pause"

\* the buckets of a trend that hold tokens
BucketsWithData(trend) == {i \in DOMAIN trend.vals : trend.vals[i] # 0}

\* C39: the acceleration predict() reports is (trend[11] - trend[10]) -
\* (trend[10] - trend[9]) over the last three of the 12 buckets, and it is 0
\* whenever fewer than 3 buckets hold data, the empty window included.
C39_AccelerationOfLastThree ==
    last.op = "predict" =>
        LET trend == last.ret.velocity.trend
            acceleration == last.ret.velocity.acceleration
        IN /\ acceleration.k = "fin"
           /\ acceleration.n * trend.den =
                 ((trend.vals[12] - trend.vals[11]) - (trend.vals[11] - trend.vals[10]))
                   * acceleration.d
           /\ Cardinality(BucketsWithData(trend)) < 3 => acceleration.n = 0

\* the rows of the window predict() has just read
TrendWindow == getWindowLogs(usage_logs, now, 5)

\* min(11, floor((ts - oldest) / ((newest - oldest) / 12))) for a row of the window
BucketOf(ts) ==
    LET oldest == SetMin(Timestamps(TrendWindow))
        newest == SetMax(Timestamps(TrendWindow))
    IN MinInt(11, ((ts - oldest) * 12) \div (newest - oldest))

====
